---- MODULE Spec2Model ----
(***************************************************************************)
(* rjvm: the constant pool of a class file, its text rendering, the        *)
(* method-handle resolver and the class-file reader.                       *)
(*                                                                         *)
(* Bytes are naturals 0..255, byte buffers are sequences of bytes, u16     *)
(* values are naturals 0..65535.  Rust's Result is a record with a field   *)
(* ok; an Err carries the error variant in err.                            *)
(***************************************************************************)
EXTENDS Integers, Sequences, FiniteSets, TLC

VARIABLES
    entries,     \* ConstantPool.entries: the physical slots, in order
    added,       \* history: the entries passed to add so far, in call order
    ret,         \* the last call on the pool and what it returned
    buf,         \* Buffer: the bytes handed to read_buffer
    pos,         \* Buffer: the read position
    pc,          \* ClassFileReader::read: the step about to run
    class_file,  \* ClassFileReader.class_file (its constants are `entries`)
    local,       \* ClassFileReader::read_constants: its locals i and constants_count
    result       \* what read_buffer returned, once it has returned

vars == <<entries, added, ret, buf, pos, pc, class_file, local, result>>

(***************************************************************************)
(* Bounds of the model.                                                    *)
(***************************************************************************)
\* Most physical slots a pool is grown to by the pool-level specifications.
MaxSlots == 3
\* Most reference entries added on top of the leaf entries in SpecText.
MaxRefs == 2

U16Max == 65535
U8Max == 255

(***************************************************************************)
(* Results.                                                                *)
(***************************************************************************)
Ok(v) == [ok |-> TRUE, val |-> v]

\* InvalidConstantPoolIndexError { index }
InvalidConstantPoolIndexError(index) ==
    [ok |-> FALSE, err |-> "InvalidConstantPoolIndexError", index |-> index]

\* InvalidMethodHandleKindError { kind }
InvalidMethodHandleKindError(kind) ==
    [ok |-> FALSE, err |-> "InvalidMethodHandleKindError", kind |-> kind]

\* ConstantPoolFormattingError::PoolIndex(#[from] InvalidConstantPoolIndexError)
PoolIndex(e) == [ok |-> FALSE, err |-> "PoolIndex", index |-> e.index]

\* ConstantPoolFormattingError::MethodHandleKind(#[from] InvalidMethodHandleKindError)
MethodHandleKind(e) == [ok |-> FALSE, err |-> "MethodHandleKind", kind |-> e.kind]

\* text_of has no cycle guard: a call that re-enters an index already being
\* resolved recurses without end, and the process dies of stack exhaustion.
StackOverflow == [ok |-> FALSE, err |-> "StackOverflow"]

(***************************************************************************)
(* ConstantPoolEntry and ConstantPoolPhysicalEntry.                        *)
(***************************************************************************)
Utf8(s) == [tag |-> "Utf8", s |-> s]
Integer(n) == [tag |-> "Integer", n |-> n]
\* f32 and f64 values are kept as a count of hundredths (2.1 is 210).
Float(h) == [tag |-> "Float", h |-> h]
Long(n) == [tag |-> "Long", n |-> n]
Double(h) == [tag |-> "Double", h |-> h]
ClassReference(i) == [tag |-> "ClassReference", i |-> i]
StringReference(i) == [tag |-> "StringReference", i |-> i]
FieldReference(i, j) == [tag |-> "FieldReference", i |-> i, j |-> j]
MethodReference(i, j) == [tag |-> "MethodReference", i |-> i, j |-> j]
InterfaceMethodReference(i, j) == [tag |-> "InterfaceMethodReference", i |-> i, j |-> j]
NameAndTypeDescriptor(i, j) == [tag |-> "NameAndTypeDescriptor", i |-> i, j |-> j]
MethodHandle(k, j) == [tag |-> "MethodHandle", k |-> k, j |-> j]
MethodType(i) == [tag |-> "MethodType", i |-> i]
DynamicInfo(i, j) == [tag |-> "DynamicInfo", i |-> i, j |-> j]
InvokeDynamicInfo(i, j) == [tag |-> "InvokeDynamicInfo", i |-> i, j |-> j]
ModuleInfo(i) == [tag |-> "ModuleInfo", i |-> i]
PackageInfo(i) == [tag |-> "PackageInfo", i |-> i]

Entry(e) == [kind |-> "Entry", entry |-> e]
MultiByteEntryTombstone == [kind |-> "MultiByteEntryTombstone"]

UnaryTags == {"ClassReference", "StringReference", "MethodType", "ModuleInfo", "PackageInfo"}
DotTags == {"FieldReference", "MethodReference", "InterfaceMethodReference"}
ColonTags == {"NameAndTypeDescriptor", "DynamicInfo", "InvokeDynamicInfo"}

(***************************************************************************)
(* Number formatting (i32/i64/f32/f64 to_string).                          *)
(***************************************************************************)
Digit(d) ==
    CASE d = 0 -> "0" [] d = 1 -> "1" [] d = 2 -> "2" [] d = 3 -> "3" [] d = 4 -> "4"
      [] d = 5 -> "5" [] d = 6 -> "6" [] d = 7 -> "7" [] d = 8 -> "8" [] d = 9 -> "9"

RECURSIVE NatToString(_)
NatToString(n) ==
    IF n < 10 THEN Digit(n) ELSE NatToString(n \div 10) \o Digit(n % 10)

\* i32::to_string, i64::to_string
IntToString(n) == IF n < 0 THEN "-" \o NatToString(-n) ELSE NatToString(n)

\* f32::to_string, f64::to_string on a value of h hundredths: the shortest
\* decimal, with no fraction when it is zero and no trailing zero.
FloatToString(h) ==
    LET a == IF h < 0 THEN -h ELSE h
        whole == a \div 100
        frac == a % 100
        sign == IF h < 0 THEN "-" ELSE ""
    IN  IF frac = 0 THEN sign \o NatToString(whole)
        ELSE IF frac % 10 = 0 THEN sign \o NatToString(whole) \o "." \o Digit(frac \div 10)
        ELSE sign \o NatToString(whole) \o "." \o Digit(frac \div 10) \o Digit(frac % 10)

(***************************************************************************)
(* ConstantPool.                                                           *)
(***************************************************************************)
\* ConstantPool::add, on the slots es
add_no_tombstone(es, entry) == Append(es, Entry(entry))

add_in_front(es, entry) ==
    IF entry.tag \in {"Long", "Double"}
    THEN <<Entry(entry), MultiByteEntryTombstone>> \o es
    ELSE <<Entry(entry)>> \o es

add(es, entry) ==
    LET add_tombstone == entry.tag \in {"Long", "Double"}
        pushed == Append(es, Entry(entry))
    IN  IF add_tombstone THEN Append(pushed, MultiByteEntryTombstone) ELSE pushed

\* ConstantPool::get
get_zero_based(es, input_index) ==
    IF input_index >= Len(es)
    THEN InvalidConstantPoolIndexError(input_index)
    ELSE IF es[input_index + 1].kind = "Entry"
         THEN Ok(es[input_index + 1].entry)
         ELSE InvalidConstantPoolIndexError(input_index)

get(es, input_index) ==
    IF input_index = 0 \/ input_index > Len(es)
    THEN InvalidConstantPoolIndexError(input_index)
    ELSE LET i == input_index - 1
             entry == es[i + 1]
         IN  IF entry.kind = "Entry"
             THEN Ok(entry.entry)
             ELSE InvalidConstantPoolIndexError(input_index)

\* ConstantPool::method_handle_kind
method_handle_kind_from_zero(kind) ==
    CASE kind = 0 -> Ok("getField")
      [] kind = 1 -> Ok("getStatic")
      [] kind = 2 -> Ok("putField")
      [] kind = 3 -> Ok("putStatic")
      [] kind = 4 -> Ok("invokeVirtual")
      [] kind = 5 -> Ok("invokeStatic")
      [] kind = 6 -> Ok("invokeSpecial")
      [] kind = 7 -> Ok("newInvokeSpecial")
      [] kind = 8 -> Ok("invokeInterface")
      [] OTHER -> InvalidMethodHandleKindError(kind)

method_handle_kind(kind) ==
    CASE kind = 1 -> Ok("getField")
      [] kind = 2 -> Ok("getStatic")
      [] kind = 3 -> Ok("putField")
      [] kind = 4 -> Ok("putStatic")
      [] kind = 5 -> Ok("invokeVirtual")
      [] kind = 6 -> Ok("invokeStatic")
      [] kind = 7 -> Ok("invokeSpecial")
      [] kind = 8 -> Ok("newInvokeSpecial")
      [] kind = 9 -> Ok("invokeInterface")
      [] OTHER -> InvalidMethodHandleKindError(kind)

\* format!("{}<sep>{}", a?, b?): the arguments are evaluated left to right and
\* the first failure returns.
format2_right_first(a, sep, b) ==
    IF ~b.ok THEN b ELSE IF ~a.ok THEN a ELSE Ok(a.val \o sep \o b.val)

format2_swapped(a, sep, b) ==
    IF ~a.ok THEN a ELSE IF ~b.ok THEN b ELSE Ok(b.val \o sep \o a.val)

format2(a, sep, b) ==
    IF ~a.ok THEN a ELSE IF ~b.ok THEN b ELSE Ok(a.val \o sep \o b.val)

\* format!("{}({})", self.method_handle_kind(*i)?, self.text_of(*j)?)
format_handle_target_first(k, t) ==
    IF ~t.ok THEN t ELSE IF ~k.ok THEN MethodHandleKind(k) ELSE Ok(k.val \o "(" \o t.val \o ")")

format_handle(k, t) ==
    IF ~k.ok THEN MethodHandleKind(k) ELSE IF ~t.ok THEN t ELSE Ok(k.val \o "(" \o t.val \o ")")

\* ConstantPool::text_of.  `active` holds the indices whose text_of call is on
\* the stack: text_of is a function of (pool, idx) alone, so a call on an
\* active index repeats itself without end.
RECURSIVE text_of_rec(_, _, _)
text_of_rec(es, idx, active) ==
    IF idx \in active THEN StackOverflow
    ELSE
    LET got == get(es, idx)
        entry == got.val
        sub(n) == text_of_rec(es, n, active \cup {idx})
    IN  IF ~got.ok THEN PoolIndex(got)
        ELSE CASE entry.tag = "Utf8" -> Ok(entry.s)
               [] entry.tag = "Integer" -> Ok(IntToString(entry.n))
               [] entry.tag = "Float" -> Ok(FloatToString(entry.h))
               [] entry.tag = "Long" -> Ok(IntToString(entry.n))
               [] entry.tag = "Double" -> Ok(FloatToString(entry.h))
               [] entry.tag \in UnaryTags -> sub(entry.i)
               [] entry.tag \in DotTags -> format2(sub(entry.i), ".", sub(entry.j))
               [] entry.tag \in ColonTags -> format2(sub(entry.i), ": ", sub(entry.j))
               [] entry.tag = "MethodHandle" ->
                    format_handle(method_handle_kind(entry.k), sub(entry.j))

text_of(es, idx) == text_of_rec(es, idx, {})

(***************************************************************************)
(* MethodHandle::resolve.  The version is given by its major number.       *)
(***************************************************************************)
ValidationException == [ok |-> FALSE, err |-> "ValidationException"]

FieldRef(i, j) == [variant |-> "FieldRef", i |-> i, j |-> j]
MethodRef(i, j) == [variant |-> "MethodRef", i |-> i, j |-> j]
InterfaceMethodRef(i, j) == [variant |-> "InterfaceMethodRef", i |-> i, j |-> j]

\* the `6 | 7` arm of resolve
resolve_static_special_no_gate(major_version, entry) ==
    IF entry.tag = "MethodReference" THEN Ok(MethodRef(entry.i, entry.j))
    ELSE IF entry.tag = "InterfaceMethodReference"
         THEN Ok(InterfaceMethodRef(entry.i, entry.j))
         ELSE ValidationException

resolve_static_special(major_version, entry) ==
    IF major_version < 52
    THEN IF entry.tag = "MethodReference"
         THEN Ok(MethodRef(entry.i, entry.j))
         ELSE ValidationException
    ELSE IF entry.tag = "MethodReference"
         THEN Ok(MethodRef(entry.i, entry.j))
         ELSE IF entry.tag = "InterfaceMethodReference"
              THEN Ok(InterfaceMethodRef(entry.i, entry.j))
              ELSE ValidationException

resolve_interface_any(major_version, es, kind, index) ==
    LET got == get(es, index)
        entry == got.val
    IN  IF ~got.ok THEN ValidationException
        ELSE CASE kind \in {1, 2, 3, 4} ->
                    IF entry.tag = "FieldReference"
                    THEN Ok(FieldRef(entry.i, entry.j)) ELSE ValidationException
               [] kind \in {5, 8} ->
                    IF entry.tag = "MethodReference"
                    THEN Ok(MethodRef(entry.i, entry.j)) ELSE ValidationException
               [] kind \in {6, 7} -> resolve_static_special(major_version, entry)
               [] kind = 9 ->
                    IF entry.tag = "InterfaceMethodReference"
                    THEN Ok(InterfaceMethodRef(entry.i, entry.j))
                    ELSE IF entry.tag = "MethodReference"
                         THEN Ok(MethodRef(entry.i, entry.j))
                         ELSE ValidationException
               [] OTHER -> ValidationException

resolve(major_version, es, kind, index) ==
    LET got == get(es, index)
        entry == got.val
    IN  IF ~got.ok THEN ValidationException
        ELSE CASE kind \in {1, 2, 3, 4} ->
                    IF entry.tag = "FieldReference"
                    THEN Ok(FieldRef(entry.i, entry.j)) ELSE ValidationException
               [] kind \in {5, 8} ->
                    IF entry.tag = "MethodReference"
                    THEN Ok(MethodRef(entry.i, entry.j)) ELSE ValidationException
               [] kind \in {6, 7} -> resolve_static_special(major_version, entry)
               [] kind = 9 ->
                    IF entry.tag = "InterfaceMethodReference"
                    THEN Ok(InterfaceMethodRef(entry.i, entry.j))
                    ELSE ValidationException
               [] OTHER -> ValidationException

(***************************************************************************)
(* Calls on a pool.  ret records the last call and its outcome; an add     *)
(* overwrites it, so ret always speaks of the pool as it is.               *)
(***************************************************************************)
NoClassFile == [version |-> [major |-> 0, minor |-> 0], flags |-> 0, name |-> "", superclass |-> "",
                interfaces |-> <<>>, fields |-> <<>>, methods |-> <<>>]

ReaderIdle ==
    /\ buf = <<>>
    /\ pos = 0
    /\ pc = "idle"
    /\ class_file = NoClassFile
    /\ local = [i |-> 0, constants_count |-> 0]
    /\ result = [status |-> "running"]

ReaderUnchanged == UNCHANGED <<buf, pos, pc, class_file, local, result>>

\* cp.add(entry), while the pool stays within cap slots
Add(entry, cap) ==
    /\ Len(add(entries, entry)) <= cap
    /\ entries' = add(entries, entry)
    /\ added' = Append(added, entry)
    /\ ret' = [op |-> "add", arg |-> entry, res |-> Ok("unit")]
    /\ ReaderUnchanged

\* cp.get(index)
GetCall(index) ==
    /\ ret' = [op |-> "get", arg |-> index, res |-> get(entries, index)]
    /\ UNCHANGED <<entries, added>>
    /\ ReaderUnchanged

\* cp.text_of(index)
TextOfCall(index) ==
    /\ ret' = [op |-> "text_of", arg |-> index, res |-> text_of(entries, index)]
    /\ UNCHANGED <<entries, added>>
    /\ ReaderUnchanged

\* cp.method_handle_kind(kind)
MethodHandleKindCall(kind) ==
    /\ ret' = [op |-> "method_handle_kind", arg |-> kind, res |-> method_handle_kind(kind)]
    /\ UNCHANGED <<entries, added>>
    /\ ReaderUnchanged

\* MethodHandle::resolve(version, pool, kind, index)
ResolveCall(major_version, kind, index) ==
    /\ ret' = [op |-> "resolve",
               arg |-> [major_version |-> major_version, kind |-> kind, index |-> index],
               res |-> resolve(major_version, entries, kind, index)]
    /\ UNCHANGED <<entries, added>>
    /\ ReaderUnchanged

(***************************************************************************)
(* SpecPool: a pool grown from empty by any sequence of adds, one entry of *)
(* each width and several shapes, with get, text_of and method_handle_kind *)
(* called in between.                                                      *)
(***************************************************************************)
PoolEntries ==
    {Utf8("hey"), Integer(1), Long(123), Double(356), ClassReference(1),
     FieldReference(1, 2), MethodHandle(1, 1)}

\* u16 indices asked for: zero, every slot, past the end, the largest u16
PoolIndices == 0..(MaxSlots + 1) \cup {U16Max}

PoolKinds == {0, 1, 9, 10}

InitPool ==
    /\ entries = <<>>
    /\ added = <<>>
    /\ ret = [op |-> "new", arg |-> 0, res |-> Ok("unit")]
    /\ ReaderIdle

PoolAdd == \E e \in PoolEntries : Add(e, MaxSlots)
PoolGet == \E i \in PoolIndices : GetCall(i)
PoolTextOf == \E i \in PoolIndices : TextOfCall(i)
PoolMethodHandleKind == \E k \in PoolKinds : MethodHandleKindCall(k)

NextPool == PoolAdd \/ PoolGet \/ PoolTextOf \/ PoolMethodHandleKind

SpecPool == InitPool /\ [][NextPool]_vars

(***************************************************************************)
(* Claims on get and add (SpecPool).                                       *)
(***************************************************************************)
IsLive(es, i) == i \in 1..Len(es) /\ es[i].kind = "Entry"

\* C1: get(i) succeeds iff 1 <= i <= slot count and slot i is a live entry;
\* otherwise (i = 0, i past the end, or a tombstone) it fails with
\* InvalidConstantPoolIndexError carrying exactly i, the same error for a
\* tombstone as for an out-of-range index; get(0) fails for every pool.
C1_GetValidity ==
    ret.op = "get" =>
        /\ ret.res.ok <=> IsLive(entries, ret.arg)
        /\ ~IsLive(entries, ret.arg) =>
              ret.res = [ok |-> FALSE, err |-> "InvalidConstantPoolIndexError",
                         index |-> ret.arg]
        /\ ret.arg = 0 => ~ret.res.ok

\* a get that landed on a tombstone slot and failed
C1_Witness ==
    /\ ret.op = "get"
    /\ ret.arg \in 1..Len(entries)
    /\ entries[ret.arg].kind = "MultiByteEntryTombstone"
    /\ ~ret.res.ok

IsWide(e) == e.tag \in {"Long", "Double"}

RECURSIVE SlotsBefore(_, _)
\* slots taken by the first k of the added entries
SlotsBefore(as, k) ==
    IF k = 0 THEN 0 ELSE SlotsBefore(as, k - 1) + (IF IsWide(as[k]) THEN 2 ELSE 1)

\* C2: the k-th added entry is returned by get at index 1 + (2 for each
\* earlier Long or Double, 1 for each other earlier entry); the slot right
\* after each Long or Double is a tombstone on which get fails; no other
\* slot is a tombstone.
C2_IndexArithmetic ==
    /\ \A k \in 1..Len(added) :
          /\ get(entries, 1 + SlotsBefore(added, k - 1)) = Ok(added[k])
          /\ IsWide(added[k]) =>
                /\ 2 + SlotsBefore(added, k - 1) <= Len(entries)
                /\ entries[2 + SlotsBefore(added, k - 1)] = MultiByteEntryTombstone
                /\ ~get(entries, 2 + SlotsBefore(added, k - 1)).ok
    /\ \A i \in 1..Len(entries) :
          entries[i] = MultiByteEntryTombstone =>
              \E k \in 1..Len(added) :
                  IsWide(added[k]) /\ i = 2 + SlotsBefore(added, k - 1)

\* a Long was added and another entry after it: the later entry sits two
\* slots further on
C2_Witness ==
    /\ Len(added) >= 2
    /\ IsWide(added[1])
    /\ get(entries, 3) = Ok(added[2])
    /\ ~get(entries, 2).ok

\* C3: add is append-only: every index up to the old slot count answers get
\* the same after an add as before; the slot count never decreases and grows
\* by exactly 1 or 2 per add; get, text_of and method_handle_kind leave the
\* pool unchanged.
C3_AppendOnly ==
    [][ /\ Len(entries') >= Len(entries)
        /\ \A i \in 0..Len(entries) : get(entries', i) = get(entries, i)
        /\ ret'.op = "add" => Len(entries') - Len(entries) \in {1, 2}
        /\ ret'.op \in {"get", "text_of", "method_handle_kind"} => entries' = entries
      ]_vars

\* an add onto a pool that already holds a wide entry and its tombstone
C3_Witness ==
    /\ ret.op = "add"
    /\ Len(added) >= 2
    /\ IsWide(added[1])
    /\ Len(entries) = MaxSlots

(***************************************************************************)
(* SpecText: text_of on pools that hold the leaf entries "hey", "joe", -7  *)
(* and 123 (slots 1..4, slot 5 the Long's tombstone) and, after them, up   *)
(* to MaxRefs reference entries of every kind.  The references point at a  *)
(* leaf, at the tombstone, at slot 0, past the end, at an earlier          *)
(* reference and at themselves.                                            *)
(***************************************************************************)
TextLeaves == <<Utf8("hey"), Utf8("joe"), Integer(-7), Long(123)>>

RECURSIVE AddAll(_, _)
\* the pool after adding the entries of the sequence as to the pool es, in order
AddAll(es, as) == IF as = <<>> THEN es ELSE AddAll(add(es, Head(as)), Tail(as))

FirstRef == Len(AddAll(<<>>, TextLeaves)) + 1

UnaryTargets == {1, FirstRef - 1, FirstRef}
PairTargets == {<<1, 2>>, <<FirstRef, 2>>, <<0, FirstRef - 1>>, <<4, U16Max>>}
HandleTargets == {<<1, 1>>, <<6, FirstRef>>, <<9, FirstRef - 1>>}

TextEntries ==
    {[tag |-> t, i |-> n] : t \in UnaryTags, n \in UnaryTargets}
    \cup {[tag |-> t, i |-> p[1], j |-> p[2]] : t \in DotTags \cup ColonTags, p \in PairTargets}
    \cup {MethodHandle(p[1], p[2]) : p \in HandleTargets}

TextIndices == 0..(FirstRef + MaxRefs)

InitText ==
    /\ entries = AddAll(<<>>, TextLeaves)
    /\ added = TextLeaves
    /\ ret = [op |-> "new", arg |-> 0, res |-> Ok("unit")]
    /\ ReaderIdle

TextAdd == \E e \in TextEntries : Add(e, FirstRef - 1 + MaxRefs)
TextTextOf == \E i \in TextIndices : TextOfCall(i)

NextText == TextAdd \/ TextTextOf

SpecText == InitText /\ [][NextText]_vars

\* the decimal text of the numbers the leaves hold
DecimalText == (-7 :> "-7") @@ (123 :> "123")

\* the names of the method handle kinds
KindName ==
    (1 :> "getField") @@ (2 :> "getStatic") @@ (3 :> "putField") @@ (4 :> "putStatic")
    @@ (5 :> "invokeVirtual") @@ (6 :> "invokeStatic") @@ (7 :> "invokeSpecial")
    @@ (8 :> "newInvokeSpecial") @@ (9 :> "invokeInterface")

IsPoolIndexError(r) == ~r.ok /\ r.err = "PoolIndex"

\* what a two-target entry renders to, given the outcomes a and b of
\* rendering its targets: both texts joined by sep, else the first failure
JoinedAs(r, a, sep, b) ==
    /\ a.ok /\ b.ok => r = Ok(a.val \o sep \o b.val)
    /\ IsPoolIndexError(a) => r = a
    /\ a.ok /\ IsPoolIndexError(b) => r = b

\* C4: text_of(idx) is the reference rendering: Utf8 the stored string;
\* Integer/Long their decimal text; ClassReference, StringReference,
\* MethodType, ModuleInfo, PackageInfo the text of their target;
\* Field/Method/InterfaceMethodReference text(i) "." text(j); NameAndType,
\* Dynamic, InvokeDynamic text(i) ": " text(j); MethodHandle(kind, j)
\* kindName "(" text(j) ")".  An invalid index met during the rendering
\* makes text_of fail with PoolIndex carrying the first such index, left to
\* right.
C4_TextOfRendering ==
    ret.op = "text_of" =>
        LET r == ret.res
            got == get(entries, ret.arg)
            e == got.val
            T(n) == text_of(entries, n)
        IN  /\ IsPoolIndexError(r) => ~IsLive(entries, r.index)
            /\ IF ~got.ok
               THEN r = [ok |-> FALSE, err |-> "PoolIndex", index |-> ret.arg]
               ELSE CASE e.tag = "Utf8" -> r = Ok(e.s)
                      [] e.tag \in {"Integer", "Long"} -> r = Ok(DecimalText[e.n])
                      [] e.tag \in UnaryTags -> r = T(e.i)
                      [] e.tag \in DotTags -> JoinedAs(r, T(e.i), ".", T(e.j))
                      [] e.tag \in ColonTags -> JoinedAs(r, T(e.i), ": ", T(e.j))
                      [] e.tag = "MethodHandle" ->
                            e.k \in DOMAIN KindName =>
                                /\ T(e.j).ok =>
                                      r = Ok(KindName[e.k] \o "(" \o T(e.j).val \o ")")
                                /\ IsPoolIndexError(T(e.j)) => r = T(e.j)
                      [] OTHER -> TRUE

\* a method reference rendered through a class reference: "hey.joe" from
\* MethodReference(6, 2) over ClassReference(1)
C4_Witness ==
    /\ ret.op = "text_of"
    /\ IsLive(entries, ret.arg)
    /\ entries[ret.arg].entry = MethodReference(FirstRef, 2)
    /\ entries[FirstRef].entry = ClassReference(1)
    /\ ret.res = Ok("hey.joe")

(***************************************************************************)
(* SpecKind: every u8 kind, as the argument of method_handle_kind and as   *)
(* the kind of a MethodHandle entry whose target is "hey" (valid) or 0.    *)
(***************************************************************************)
U8 == 0..U8Max

InitKind ==
    /\ \E k \in U8, j \in {0, 1} :
          /\ added = <<Utf8("hey"), MethodHandle(k, j)>>
          /\ entries = AddAll(<<>>, added)
    /\ ret = [op |-> "new", arg |-> 0, res |-> Ok("unit")]
    /\ ReaderIdle

KindMethodHandleKind == MethodHandleKindCall(added[2].k)
KindTextOf == \E i \in {1, 2} : TextOfCall(i)

NextKind == KindMethodHandleKind \/ KindTextOf

SpecKind == InitKind /\ [][NextKind]_vars

\* C5: method_handle_kind succeeds exactly for kinds 1..9, with the names
\* getField, getStatic, putField, putStatic, invokeVirtual, invokeStatic,
\* invokeSpecial, newInvokeSpecial, invokeInterface in that order; any other
\* u8 fails with InvalidMethodHandleKindError carrying the kind, and text_of
\* on a MethodHandle entry of such a kind fails with MethodHandleKind, valid
\* target or not.
C5_MethodHandleKinds ==
    /\ ret.op = "method_handle_kind" =>
          IF ret.arg \in 1..9
          THEN ret.res = Ok(KindName[ret.arg])
          ELSE ret.res = [ok |-> FALSE, err |-> "InvalidMethodHandleKindError",
                          kind |-> ret.arg]
    /\ (/\ ret.op = "text_of"
        /\ IsLive(entries, ret.arg)
        /\ entries[ret.arg].entry.tag = "MethodHandle"
        /\ entries[ret.arg].entry.k \notin 1..9) =>
          ret.res = [ok |-> FALSE, err |-> "MethodHandleKind",
                     kind |-> entries[ret.arg].entry.k]

\* text_of on MethodHandle(10, 1): the target "hey" is valid, the kind is not
C5_Witness ==
    /\ ret.op = "text_of"
    /\ ret.arg = 2
    /\ entries[2].entry = MethodHandle(10, 1)
    /\ text_of(entries, 1).ok
    /\ ~ret.res.ok
    /\ ret.res.err = "MethodHandleKind"

(***************************************************************************)
(* SpecResolve: MethodHandle::resolve on pools grown from empty out of the *)
(* three reference kinds it accepts and a Long (an entry it never accepts, *)
(* and its tombstone), with every kind 0..10 and 255.                      *)
(***************************************************************************)
ResolveEntries ==
    {FieldReference(1, 2), MethodReference(3, 4), InterfaceMethodReference(5, 6),
     Long(123)}

ResolveKinds == 0..10 \cup {U8Max}
\* class-file major versions: 51 (Java 7), 52 (Java 8), 65 (Java 21)
ResolveVersions == {51, 52, 65}

InitResolve == InitPool

ResolveAdd == \E e \in ResolveEntries : Add(e, MaxSlots)
ResolveResolve ==
    \E v \in ResolveVersions, k \in ResolveKinds, i \in PoolIndices : ResolveCall(v, k, i)

NextResolve == ResolveAdd \/ ResolveResolve

SpecResolve == InitResolve /\ [][NextResolve]_vars

\* C6: with kind 6 or 7 and an InterfaceMethodReference entry, resolve
\* returns InterfaceMethodRef with the entry's two indices when the major
\* version is >= 52 and fails with a validation error when it is < 52; with
\* a MethodReference entry it succeeds for every version.
C6_VersionGate ==
    (/\ ret.op = "resolve"
     /\ ret.arg.kind \in {6, 7}
     /\ IsLive(entries, ret.arg.index)) =>
        LET e == entries[ret.arg.index].entry
        IN  /\ e.tag = "InterfaceMethodReference" =>
                  IF ret.arg.major_version >= 52
                  THEN ret.res = Ok([variant |-> "InterfaceMethodRef", i |-> e.i, j |-> e.j])
                  ELSE ret.res = [ok |-> FALSE, err |-> "ValidationException"]
            /\ e.tag = "MethodReference" =>
                  ret.res = Ok([variant |-> "MethodRef", i |-> e.i, j |-> e.j])

\* kind 6 on an InterfaceMethodReference under major version 51: refused
C6_Witness ==
    /\ ret.op = "resolve"
    /\ ret.arg.kind = 6
    /\ ret.arg.major_version = 51
    /\ IsLive(entries, ret.arg.index)
    /\ entries[ret.arg.index].entry.tag = "InterfaceMethodReference"
    /\ ~ret.res.ok

\* the variant resolve answers with for a kind, an entry tag and a version,
\* or "none" when the combination is refused
Accepted(kind, tag, major_version) ==
    CASE kind \in 1..4 /\ tag = "FieldReference" -> "FieldRef"
      [] kind \in {5, 8} /\ tag = "MethodReference" -> "MethodRef"
      [] kind \in {6, 7} /\ tag = "MethodReference" -> "MethodRef"
      [] kind \in {6, 7} /\ tag = "InterfaceMethodReference" /\ major_version >= 52 ->
            "InterfaceMethodRef"
      [] kind = 9 /\ tag = "InterfaceMethodReference" -> "InterfaceMethodRef"
      [] OTHER -> "none"

C7_Cases ==
    ret.op = "resolve" =>
        LET a == ret.arg
            live == IsLive(entries, a.index)
            e == entries[a.index].entry
            accepted == IF live THEN Accepted(a.kind, e.tag, a.major_version) ELSE "none"
        IN  IF accepted = "none"
            THEN ret.res = [ok |-> FALSE, err |-> "ValidationException"]
            ELSE ret.res = Ok([variant |-> accepted, i |-> e.i, j |-> e.j])

\* C7: resolve succeeds only for kind 1..4 on a FieldReference, kind 5 or 8
\* on a MethodReference, kind 6 or 7 under the version rule, kind 9 on an
\* InterfaceMethodReference; every other combination, every kind outside
\* 1..9 and every index on which get fails yields ValidationException; a
\* success carries the entry's two indices unchanged; the pool is not
\* modified.
C7_ResolveCases ==
    /\ []C7_Cases
    /\ [][ret'.op = "resolve" => entries' = entries]_vars

\* kind 9 on a MethodReference: a live entry of a reference kind, refused
C7_Witness ==
    /\ ret.op = "resolve"
    /\ ret.arg.kind = 9
    /\ IsLive(entries, ret.arg.index)
    /\ entries[ret.arg.index].entry.tag = "MethodReference"
    /\ ret.res = ValidationException

(***************************************************************************)
(* Buffer: a big-endian cursor over the bytes buf, at position pos.  A     *)
(* read returns the value and the position after it, or fails with         *)
(* UnexpectedEndOfData when fewer bytes remain than it needs.              *)
(***************************************************************************)
UnexpectedEndOfData == [ok |-> FALSE, err |-> "BufferError", variant |-> "UnexpectedEndOfData"]
InvalidCesu8String == [ok |-> FALSE, err |-> "BufferError", variant |-> "InvalidCesu8String"]

Read(v, p) == [ok |-> TRUE, val |-> v, pos |-> p]

\* the n bytes of b after position p
Slice(b, p, n) == [k \in 1..n |-> b[p + k]]

read_bytes(b, p, n) ==
    IF p + n > Len(b) THEN UnexpectedEndOfData ELSE Read(Slice(b, p, n), p + n)

read_u8(b, p) ==
    IF p + 1 > Len(b) THEN UnexpectedEndOfData ELSE Read(b[p + 1], p + 1)

read_u16(b, p) ==
    IF p + 2 > Len(b) THEN UnexpectedEndOfData
    ELSE Read(b[p + 1] * 256 + b[p + 2], p + 2)

\* A u32 is kept as its two 16-bit halves <<high, low>>.
read_u32(b, p) ==
    IF p + 4 > Len(b) THEN UnexpectedEndOfData
    ELSE Read(<<b[p + 1] * 256 + b[p + 2], b[p + 3] * 256 + b[p + 4]>>, p + 4)

\* two's complement of four bytes
be_i32(bs) ==
    (IF bs[1] >= 128 THEN bs[1] - 256 ELSE bs[1]) * 16777216
        + bs[2] * 65536 + bs[3] * 256 + bs[4]

read_i32(b, p) ==
    IF p + 4 > Len(b) THEN UnexpectedEndOfData
    ELSE Read(be_i32(Slice(b, p, 4)), p + 4)

\* two's complement of eight bytes, for the values that fit in 24 bits and
\* a sign (the Long constants of the inputs)
be_i64(bs) ==
    CASE \A k \in 1..5 : bs[k] = 0 -> bs[6] * 65536 + bs[7] * 256 + bs[8]
      [] \A k \in 1..5 : bs[k] = 255 ->
            bs[6] * 65536 + bs[7] * 256 + bs[8] - 16777216

read_i64(b, p) ==
    IF p + 8 > Len(b) THEN UnexpectedEndOfData
    ELSE Read(be_i64(Slice(b, p, 8)), p + 8)

\* f32::from_be_bytes, in hundredths, for the bit patterns of the inputs:
\* 0.0, 1.0 and 2.1
be_f32(bs) ==
    CASE bs = <<0, 0, 0, 0>> -> 0
      [] bs = <<63, 128, 0, 0>> -> 100
      [] bs = <<64, 6, 102, 102>> -> 210

read_f32(b, p) ==
    IF p + 4 > Len(b) THEN UnexpectedEndOfData
    ELSE Read(be_f32(Slice(b, p, 4)), p + 4)

\* f64::from_be_bytes, in hundredths, for the bit patterns of the inputs:
\* 0.0 and 3.56
be_f64(bs) ==
    CASE bs = <<0, 0, 0, 0, 0, 0, 0, 0>> -> 0
      [] bs = <<64, 12, 122, 225, 71, 174, 20, 123>> -> 356

read_f64(b, p) ==
    IF p + 8 > Len(b) THEN UnexpectedEndOfData
    ELSE Read(be_f64(Slice(b, p, 8)), p + 8)

\* the character of a one-byte code unit (letters, digits and the punctuation
\* of class names and descriptors)
Cesu8Char(b) ==
    CASE b = 32 -> " "
      [] b = 36 -> "$"
      [] b = 40 -> "("
      [] b = 41 -> ")"
      [] b = 44 -> ","
      [] b = 45 -> "-"
      [] b = 46 -> "."
      [] b = 47 -> "/"
      [] b = 48 -> "0"
      [] b = 49 -> "1"
      [] b = 50 -> "2"
      [] b = 51 -> "3"
      [] b = 52 -> "4"
      [] b = 53 -> "5"
      [] b = 54 -> "6"
      [] b = 55 -> "7"
      [] b = 56 -> "8"
      [] b = 57 -> "9"
      [] b = 58 -> ":"
      [] b = 59 -> ";"
      [] b = 60 -> "<"
      [] b = 62 -> ">"
      [] b = 65 -> "A"
      [] b = 66 -> "B"
      [] b = 67 -> "C"
      [] b = 68 -> "D"
      [] b = 69 -> "E"
      [] b = 70 -> "F"
      [] b = 71 -> "G"
      [] b = 72 -> "H"
      [] b = 73 -> "I"
      [] b = 74 -> "J"
      [] b = 75 -> "K"
      [] b = 76 -> "L"
      [] b = 77 -> "M"
      [] b = 78 -> "N"
      [] b = 79 -> "O"
      [] b = 80 -> "P"
      [] b = 81 -> "Q"
      [] b = 82 -> "R"
      [] b = 83 -> "S"
      [] b = 84 -> "T"
      [] b = 85 -> "U"
      [] b = 86 -> "V"
      [] b = 87 -> "W"
      [] b = 88 -> "X"
      [] b = 89 -> "Y"
      [] b = 90 -> "Z"
      [] b = 91 -> "["
      [] b = 95 -> "_"
      [] b = 97 -> "a"
      [] b = 98 -> "b"
      [] b = 99 -> "c"
      [] b = 100 -> "d"
      [] b = 101 -> "e"
      [] b = 102 -> "f"
      [] b = 103 -> "g"
      [] b = 104 -> "h"
      [] b = 105 -> "i"
      [] b = 106 -> "j"
      [] b = 107 -> "k"
      [] b = 108 -> "l"
      [] b = 109 -> "m"
      [] b = 110 -> "n"
      [] b = 111 -> "o"
      [] b = 112 -> "p"
      [] b = 113 -> "q"
      [] b = 114 -> "r"
      [] b = 115 -> "s"
      [] b = 116 -> "t"
      [] b = 117 -> "u"
      [] b = 118 -> "v"
      [] b = 119 -> "w"
      [] b = 120 -> "x"
      [] b = 121 -> "y"
      [] b = 122 -> "z"

RECURSIVE Cesu8Decode(_)
\* the text of a byte string of printable one-byte code units; 0xF8..0xFF
\* occur in no encoding of any text
Cesu8Decode(bs) ==
    IF bs = <<>> THEN Ok("")
    ELSE IF Head(bs) >= 248 THEN InvalidCesu8String
    ELSE LET rest == Cesu8Decode(Tail(bs))
         IN  IF rest.ok THEN Ok(Cesu8Char(Head(bs)) \o rest.val) ELSE rest

read_utf8(b, p, len) ==
    IF p + len > Len(b) THEN UnexpectedEndOfData
    ELSE LET text == Cesu8Decode(Slice(b, p, len))
         IN  IF text.ok THEN Read(text.val, p + len) ELSE text

(***************************************************************************)
(* ClassReaderError.                                                       *)
(***************************************************************************)
NoSource == [some |-> FALSE]
Some(e) == [some |-> TRUE, error |-> e]

InvalidClassData(msg, source) ==
    [ok |-> FALSE, err |-> "InvalidClassData", msg |-> msg, source |-> source]

InvalidClassDataIndex(msg, source) ==
    [ok |-> FALSE, err |-> "InvalidClassDataIndex", msg |-> msg, source |-> source]

UnsupportedVersion(major, minor) ==
    [ok |-> FALSE, err |-> "UnsupportedVersion", major |-> major, minor |-> minor]

\* ClassReaderError::invalid_class_data
invalid_class_data(message) == InvalidClassData(message, NoSource)

\* Display of the errors of the pool (the error attribute of each error type)
to_string(e) ==
    CASE e.err \in {"InvalidConstantPoolIndexError", "PoolIndex"} ->
            "invalid constant pool index: " \o IntToString(e.index)
      [] e.err \in {"InvalidMethodHandleKindError", "MethodHandleKind"} ->
            "invalid method handle kind: " \o IntToString(e.kind)

\* impl From<ConstantPoolFormattingError> for ClassReaderError
from_formatting_error(e) == InvalidClassData(to_string(e), Some(e))

\* impl From<InvalidConstantPoolIndexError> for ClassReaderError
from_index_error(e) == InvalidClassDataIndex(to_string(e), Some(e))

\* impl From<BufferError> for ClassReaderError
from_buffer_error(e) ==
    CASE e.variant = "UnexpectedEndOfData" ->
            invalid_class_data("unexpected end of class file")
      [] e.variant = "InvalidCesu8String" ->
            invalid_class_data("invalid cesu8 string")

(***************************************************************************)
(* ClassFileReader.  A reading function takes the buffer and a position    *)
(* and yields Done(value, position after) or Fail(error, position): the    *)
(* position reached when it gave up.                                       *)
(***************************************************************************)
Done(v, p) == [ok |-> TRUE, val |-> v, pos |-> p]
Fail(e, p) == [ok |-> FALSE, error |-> e, pos |-> p]

\* `self.buffer.read_x()?`: a BufferError becomes a ClassReaderError
Buffered(r, p) == IF r.ok THEN Done(r.val, r.pos) ELSE Fail(from_buffer_error(r), p)

\* the ? operator on a Result: an Err returns at once, an Ok hands its value
\* and the position after it to the rest of the function
Try(r, rest(_, _)) == IF r.ok THEN rest(r.val, r.pos) ELSE r

\* 0xCAFEBABE as the halves 0xCAFE, 0xBABE
MagicHigh == 51966
MagicLow == 47806

\* ClassFileReader::check_magic_number
check_magic_number_first_half(b, p) ==
    LET r == Buffered(read_u32(b, p), p)
    IN  IF ~r.ok THEN r
        ELSE IF r.val[1] = MagicHigh THEN Done("unit", r.pos)
        ELSE Fail(invalid_class_data("invalid magic number"), r.pos)

check_magic_number(b, p) ==
    LET r == Buffered(read_u32(b, p), p)
    IN  IF ~r.ok THEN r
        ELSE IF r.val = <<MagicHigh, MagicLow>> THEN Done("unit", r.pos)
        ELSE Fail(invalid_class_data("invalid magic number"), r.pos)

\* ClassFileVersion::from: the majors of JDK 1.1 (45) to Java 21 (65)
SupportedMajors == 45..65

ClassFileVersion_from(major, minor) ==
    IF major \in SupportedMajors
    THEN Ok([major |-> major, minor |-> minor])
    ELSE UnsupportedVersion(major, minor)

\* a read_version that takes every major and minor
read_version_unchecked(b, p) ==
    LET minor_version == Buffered(read_u16(b, p), p)
        major_version == Buffered(read_u16(b, minor_version.pos), minor_version.pos)
    IN  IF ~minor_version.ok THEN minor_version
        ELSE IF ~major_version.ok THEN major_version
        ELSE Done([major |-> major_version.val, minor |-> minor_version.val],
                  major_version.pos)

\* ClassFileReader::read_version
read_version(b, p) ==
    LET minor_version == Buffered(read_u16(b, p), p)
        major_version == Buffered(read_u16(b, minor_version.pos), minor_version.pos)
        version == ClassFileVersion_from(major_version.val, minor_version.val)
    IN  IF ~minor_version.ok THEN minor_version
        ELSE IF ~major_version.ok THEN major_version
        ELSE IF ~version.ok THEN Fail(version, major_version.pos)
        ELSE Done(version.val, major_version.pos)

HexDigit(d) ==
    CASE d < 10 -> Digit(d)
      [] d = 10 -> "A" [] d = 11 -> "B" [] d = 12 -> "C"
      [] d = 13 -> "D" [] d = 14 -> "E" [] d = 15 -> "F"

RECURSIVE UpperHex(_)
\* format!("{:X}", n)
UpperHex(n) == IF n < 16 THEN HexDigit(n) ELSE UpperHex(n \div 16) \o HexDigit(n % 16)

\* ClassFileReader::read_utf8_constant
read_utf8_constant(b, p) ==
    Try(Buffered(read_u16(b, p), p), LAMBDA len, p1 :
    Try(Buffered(read_utf8(b, p1, len), p1), LAMBDA text, p2 : Done(Utf8(text), p2)))

\* ClassFileReader::read_int_constant
read_int_constant(b, p) ==
    Try(Buffered(read_i32(b, p), p), LAMBDA n, q : Done(Integer(n), q))

\* ClassFileReader::read_float_constant
read_float_constant(b, p) ==
    Try(Buffered(read_f32(b, p), p), LAMBDA n, q : Done(Float(n), q))

\* ClassFileReader::read_long_constant
read_long_constant(b, p) ==
    Try(Buffered(read_i64(b, p), p), LAMBDA n, q : Done(Long(n), q))

\* ClassFileReader::read_double_constant
read_double_constant(b, p) ==
    Try(Buffered(read_f64(b, p), p), LAMBDA n, q : Done(Double(n), q))

\* ClassFileReader::read_class_reference_constant
read_class_reference_constant(b, p) ==
    Try(Buffered(read_u16(b, p), p), LAMBDA fqn_string_index, q : Done(ClassReference(fqn_string_index), q))

\* ClassFileReader::read_string_reference_constant
read_string_reference_constant(b, p) ==
    Try(Buffered(read_u16(b, p), p), LAMBDA string_index, q : Done(StringReference(string_index), q))

\* ClassFileReader::read_method_reference_constant
read_method_reference_constant(b, p) ==
    Try(Buffered(read_u16(b, p), p), LAMBDA class_reference, p1 :
    Try(Buffered(read_u16(b, p1), p1), LAMBDA name_and_type, p2 :
        Done(MethodReference(class_reference, name_and_type), p2)))

\* ClassFileReader::read_interface_method_reference_constant
read_interface_method_reference_constant(b, p) ==
    Try(Buffered(read_u16(b, p), p), LAMBDA class_reference, p1 :
    Try(Buffered(read_u16(b, p1), p1), LAMBDA name_and_type, p2 :
        Done(InterfaceMethodReference(class_reference, name_and_type), p2)))

\* ClassFileReader::read_field_reference_constant
read_field_reference_constant(b, p) ==
    Try(Buffered(read_u16(b, p), p), LAMBDA class_reference, p1 :
    Try(Buffered(read_u16(b, p1), p1), LAMBDA name_and_type, p2 :
        Done(FieldReference(class_reference, name_and_type), p2)))

\* ClassFileReader::read_name_and_type_constant
read_name_and_type_constant(b, p) ==
    Try(Buffered(read_u16(b, p), p), LAMBDA name, p1 :
    Try(Buffered(read_u16(b, p1), p1), LAMBDA type_descriptor, p2 :
        Done(NameAndTypeDescriptor(name, type_descriptor), p2)))

\* the match on the tag in read_constants, with the reader it selects; p is
\* the position after the tag
read_constant(tag, b, p) ==
    CASE tag = 1 -> read_utf8_constant(b, p)
      [] tag = 3 -> read_int_constant(b, p)
      [] tag = 4 -> read_float_constant(b, p)
      [] tag = 5 -> read_long_constant(b, p)
      [] tag = 6 -> read_double_constant(b, p)
      [] tag = 7 -> read_class_reference_constant(b, p)
      [] tag = 8 -> read_string_reference_constant(b, p)
      [] tag = 9 -> read_field_reference_constant(b, p)
      [] tag = 10 -> read_method_reference_constant(b, p)
      [] tag = 11 -> read_interface_method_reference_constant(b, p)
      [] tag = 12 -> read_name_and_type_constant(b, p)
      [] OTHER ->
            Fail(invalid_class_data("Unknown constant type: 0x" \o UpperHex(tag)), p)

\* bitflags from_bits: Some(bits) when every set bit is one of the known
\* bit positions, None otherwise
Power2(k) == 2 ^ k
BitSet(n, k) == (n \div Power2(k)) % 2 = 1
from_bits(n, known) ==
    IF \A k \in 0..15 : BitSet(n, k) => k \in known THEN Some(n) ELSE NoSource

\* PUBLIC 0x0001, FINAL 0x0010, SUPER 0x0020, INTERFACE 0x0200, ABSTRACT
\* 0x0400, SYNTHETIC 0x1000, ANNOTATION 0x2000, ENUM 0x4000
ClassAccessFlags == {0, 4, 5, 9, 10, 12, 13, 14}
\* PUBLIC, PRIVATE, PROTECTED, STATIC, FINAL, VOLATILE 0x0040, TRANSIENT
\* 0x0080, SYNTHETIC, ENUM
FieldFlags == {0, 1, 2, 3, 4, 6, 7, 12, 14}
\* PUBLIC .. FINAL, SYNCHRONIZED 0x0020, BRIDGE, VARARGS, NATIVE 0x0100,
\* ABSTRACT 0x0400, STRICT 0x0800, SYNTHETIC 0x1000
MethodFlags == {0, 1, 2, 3, 4, 5, 6, 7, 8, 10, 11, 12}

\* read_access_flags, read_field_flags, read_method_flags
read_flags(b, p, known, what) ==
    LET num == Buffered(read_u16(b, p), p)
        flags == from_bits(num.val, known)
    IN  IF ~num.ok THEN num
        ELSE IF flags.some THEN Done(num.val, num.pos)
        ELSE Fail(invalid_class_data("invalid " \o what \o " flags: " \o IntToString(num.val)),
                  num.pos)

read_access_flags(b, p) == read_flags(b, p, ClassAccessFlags, "class")
read_field_flags(b, p) == read_flags(b, p, FieldFlags, "field")
read_method_flags(b, p) == read_flags(b, p, MethodFlags, "method")

\* ClassFileReader::read_string_reference: text_of, its error converted.  A
\* text_of that never returns takes the whole process down with it.
read_string_reference(es, index, p) ==
    LET text == text_of(es, index)
    IN  IF text.ok THEN Done(text.val, p)
        ELSE IF text = StackOverflow THEN Fail(StackOverflow, p)
        ELSE Fail(from_formatting_error(text), p)

\* ClassFileReader::read_class_reference
read_class_reference(b, p, es) ==
    Try(Buffered(read_u16(b, p), p), LAMBDA super_constant_idx, q :
        IF super_constant_idx = 0 THEN Done("", q)
        ELSE read_string_reference(es, super_constant_idx, q))

RECURSIVE collect_class_references(_, _, _, _, _)
\* (0..n).map(|_| self.read_class_reference()).collect::<Result<Vec<_>>>():
\* n class references read one after the other, stopping at the first that fails
collect_class_references(b, p, es, n, acc) ==
    IF n = 0 THEN Done(acc, p)
    ELSE Try(read_class_reference(b, p, es), LAMBDA one, q :
             collect_class_references(b, q, es, n - 1, Append(acc, one)))

\* ClassFileReader::read_interfaces
read_interfaces(b, p, es) ==
    Try(Buffered(read_u16(b, p), p), LAMBDA interfaces_count, q :
        collect_class_references(b, q, es, interfaces_count, <<>>))

\* self.buffer.read_bytes(len as usize) of read_raw_attribute; a length of
\* 65536 or more is beyond every buffer of the model
read_attribute_bytes(b, p, len) ==
    Buffered(IF len[1] > 0 THEN UnexpectedEndOfData ELSE read_bytes(b, p, len[2]), p)

\* ClassFileReader::read_raw_attribute
read_raw_attribute(b, p, es) ==
    Try(Buffered(read_u16(b, p), p), LAMBDA name_constant_index, p1 :
    Try(read_string_reference(es, name_constant_index, p1), LAMBDA name, p2 :
    Try(Buffered(read_u32(b, p2), p2), LAMBDA len, p3 :
    Try(read_attribute_bytes(b, p3, len), LAMBDA bytes, p4 :
        Done([name |-> name, info |-> bytes], p4)))))

RECURSIVE collect_raw_attributes(_, _, _, _, _)
\* (0..n).map(|_| self.read_raw_attribute()).collect::<Result<Vec<_>>>():
\* n attributes read one after the other, stopping at the first that fails
collect_raw_attributes(b, p, es, n, acc) ==
    IF n = 0 THEN Done(acc, p)
    ELSE Try(read_raw_attribute(b, p, es), LAMBDA one, q :
             collect_raw_attributes(b, q, es, n - 1, Append(acc, one)))

\* ClassFileReader::read_raw_attributes
read_raw_attributes(b, p, es) ==
    Try(Buffered(read_u16(b, p), p), LAMBDA attributes_count, q :
        collect_raw_attributes(b, q, es, attributes_count, <<>>))

\* format!("{:?}", entry) for the entries a ConstantValue may not refer to
Debug(e) ==
    CASE e.tag = "Utf8" -> "Utf8(\"" \o e.s \o "\")"
      [] e.tag \in UnaryTags -> e.tag \o "(" \o IntToString(e.i) \o ")"
      [] e.tag \in DotTags \cup ColonTags ->
            e.tag \o "(" \o IntToString(e.i) \o ", " \o IntToString(e.j) \o ")"
      [] e.tag = "MethodHandle" ->
            e.tag \o "(" \o IntToString(e.k) \o ", " \o IntToString(e.j) \o ")"

\* FieldConstantValue
FieldConstantValue(variant, v) == [variant |-> variant, v |-> v]

\* a match that takes an entry of the wrong variant for no constant value
constant_value_from_unchecked(entry, es, p) ==
    CASE entry.tag = "StringReference" ->
            Try(read_string_reference(es, entry.i, p), LAMBDA referred_string, q :
                Done(Some(FieldConstantValue("String", referred_string)), p))
      [] entry.tag = "Integer" -> Done(Some(FieldConstantValue("Int", entry.n)), p)
      [] entry.tag = "Float" -> Done(Some(FieldConstantValue("Float", entry.h)), p)
      [] entry.tag = "Long" -> Done(Some(FieldConstantValue("Long", entry.n)), p)
      [] entry.tag = "Double" -> Done(Some(FieldConstantValue("Double", entry.h)), p)
      [] OTHER -> Done(NoSource, p)

\* the match of extract_constant_value on the entry the attribute refers to
constant_value_from(entry, es, p) ==
    CASE entry.tag = "StringReference" ->
            Try(read_string_reference(es, entry.i, p), LAMBDA referred_string, q :
                Done(Some(FieldConstantValue("String", referred_string)), p))
      [] entry.tag = "Integer" -> Done(Some(FieldConstantValue("Int", entry.n)), p)
      [] entry.tag = "Float" -> Done(Some(FieldConstantValue("Float", entry.h)), p)
      [] entry.tag = "Long" -> Done(Some(FieldConstantValue("Long", entry.n)), p)
      [] entry.tag = "Double" -> Done(Some(FieldConstantValue("Double", entry.h)), p)
      [] OTHER -> Fail(invalid_class_data("invalid type for ConstantValue: "
                                          \o Debug(entry)), p)

\* self.constants.get(constant_index)? of extract_constant_value
get_constant(es, constant_index, p) ==
    LET got == get(es, constant_index)
    IN  IF got.ok THEN Done(got.val, p) ELSE Fail(from_index_error(got), p)

\* the closure of extract_constant_value, on one ConstantValue attribute
constant_value_of(attr, es, p) ==
    IF Len(attr.info) # 2
    THEN Fail(invalid_class_data("invalid attribute of type ConstantValue"), p)
    ELSE Try(get_constant(es, attr.info[1] * 256 + attr.info[2], p), LAMBDA entry, q :
             constant_value_from(entry, es, p))

\* ClassFileReader::extract_constant_value: the first attribute named
\* ConstantValue decides; with none the value is None
extract_constant_value(raw_attributes, es, p) ==
    LET named == {k \in 1..Len(raw_attributes) : raw_attributes[k].name = "ConstantValue"}
        first == CHOOSE k \in named : \A m \in named : k <= m
    IN  IF named = {} THEN Done(NoSource, p)
        ELSE constant_value_of(raw_attributes[first], es, p)

\* ClassFileReader::read_field
read_field(b, p, es) ==
    Try(read_field_flags(b, p), LAMBDA flags, p1 :
    Try(Buffered(read_u16(b, p1), p1), LAMBDA name_constant_index, p2 :
    Try(read_string_reference(es, name_constant_index, p2), LAMBDA name, p3 :
    Try(Buffered(read_u16(b, p3), p3), LAMBDA type_constant_index, p4 :
    Try(read_string_reference(es, type_constant_index, p4), LAMBDA type_descriptor, p5 :
    Try(read_raw_attributes(b, p5, es), LAMBDA raw_attributes, p6 :
    Try(extract_constant_value(raw_attributes, es, p6), LAMBDA constant_value, p7 :
        Done([flags |-> flags, name |-> name, type_descriptor |-> type_descriptor,
              constant_value |-> constant_value], p7))))))))

RECURSIVE collect_fields(_, _, _, _, _)
\* (0..n).map(|_| self.read_field()).collect::<Result<Vec<_>>>(): n fields
\* read one after the other, stopping at the first that fails
collect_fields(b, p, es, n, acc) ==
    IF n = 0 THEN Done(acc, p)
    ELSE Try(read_field(b, p, es), LAMBDA one, q :
             collect_fields(b, q, es, n - 1, Append(acc, one)))

\* ClassFileReader::read_fields
read_fields(b, p, es) ==
    Try(Buffered(read_u16(b, p), p), LAMBDA fields_count, q :
        collect_fields(b, q, es, fields_count, <<>>))

\* ClassFileReader::read_method
read_method(b, p, es) ==
    Try(read_method_flags(b, p), LAMBDA flags, p1 :
    Try(Buffered(read_u16(b, p1), p1), LAMBDA name_constant_index, p2 :
    Try(read_string_reference(es, name_constant_index, p2), LAMBDA name, p3 :
    Try(Buffered(read_u16(b, p3), p3), LAMBDA type_constant_index, p4 :
    Try(read_string_reference(es, type_constant_index, p4), LAMBDA type_descriptor, p5 :
    Try(read_raw_attributes(b, p5, es), LAMBDA attributes, p6 :
        Done([flags |-> flags, name |-> name, type_descriptor |-> type_descriptor,
              attributes |-> attributes], p6)))))))

RECURSIVE collect_methods_newest_first(_, _, _, _, _)
\* a collection that puts each method in front of those read before it
collect_methods_newest_first(b, p, es, n, acc) ==
    IF n = 0 THEN Done(acc, p)
    ELSE Try(read_method(b, p, es), LAMBDA one, q :
             collect_methods_newest_first(b, q, es, n - 1, <<one>> \o acc))

RECURSIVE collect_methods(_, _, _, _, _)
\* (0..n).map(|_| self.read_method()).collect::<Result<Vec<_>>>(): n methods
\* read one after the other, stopping at the first that fails
collect_methods(b, p, es, n, acc) ==
    IF n = 0 THEN Done(acc, p)
    ELSE Try(read_method(b, p, es), LAMBDA one, q :
             collect_methods(b, q, es, n - 1, Append(acc, one)))

\* ClassFileReader::read_methods
read_methods(b, p, es) ==
    Try(Buffered(read_u16(b, p), p), LAMBDA methods_count, q :
        collect_methods(b, q, es, methods_count, <<>>))

(***************************************************************************)
(* ClassFileReader::read, one action per step; read_constants is one       *)
(* action for its count and one per turn of its loop.                      *)
(***************************************************************************)
\* a step returned Err through `?`: read returns it and nothing else runs.
\* A text_of that recursed without end has ended the process instead.
Fails(r) ==
    IF r.error = StackOverflow
    THEN pc' = "crashed" /\ result' = [status |-> "stack_overflow"]
    ELSE pc' = "failed" /\ result' = [status |-> "err", error |-> r.error]

\* a read that went on to the next step whatever the step returned
Proceeds_past_errors(r, next) ==
    /\ pos' = r.pos
    /\ pc' = next
    /\ UNCHANGED result

\* a step that reads and checks, and stores nothing
Proceeds(r, next) ==
    /\ pos' = r.pos
    /\ IF r.ok THEN pc' = next /\ UNCHANGED result ELSE Fails(r)

PoolUnchanged == UNCHANGED <<entries, added, ret>>

\* self.check_magic_number()?
CheckMagicNumber ==
    /\ pc = "magic"
    /\ Proceeds(check_magic_number(buf, pos), "version")
    /\ UNCHANGED <<buf, class_file, local>>
    /\ PoolUnchanged

\* self.read_version()?
ReadVersion ==
    /\ pc = "version"
    /\ LET r == read_version(buf, pos)
       IN  /\ Proceeds(r, "constants")
           /\ class_file' = IF r.ok THEN [class_file EXCEPT !.version = r.val] ELSE class_file
    /\ UNCHANGED <<buf, local>>
    /\ PoolUnchanged

\* read_constants up to its loop: constants_count = read_u16()? - 1, i = 0
ReadConstantsCount ==
    /\ pc = "constants"
    /\ LET count == Buffered(read_u16(buf, pos), pos)
       IN  /\ count.ok => count.val > 0
           /\ pos' = count.pos
           /\ IF ~count.ok
              THEN Fails(count) /\ UNCHANGED local
              ELSE /\ local' = [i |-> 0, constants_count |-> count.val - 1]
                   /\ pc' = IF count.val - 1 > 0 THEN "constants_loop" ELSE "access_flags"
                   /\ UNCHANGED result
    /\ UNCHANGED <<buf, class_file>>
    /\ PoolUnchanged

\* read_u16()? - 1 on a count of 0, built with overflow checks: the
\* subtraction panics
ReadConstantsCountPanics ==
    /\ pc = "constants"
    /\ LET count == Buffered(read_u16(buf, pos), pos)
       IN  /\ count.ok /\ count.val = 0
           /\ pos' = count.pos
    /\ pc' = "panicked"
    /\ result' = [status |-> "panic", msg |-> "attempt to subtract with overflow"]
    /\ UNCHANGED <<buf, class_file, local>>
    /\ PoolUnchanged

\* read_u16()? - 1 on a count of 0, built without overflow checks: the
\* subtraction wraps to 65535
ReadConstantsCountWraps ==
    /\ pc = "constants"
    /\ LET count == Buffered(read_u16(buf, pos), pos)
       IN  /\ count.ok /\ count.val = 0
           /\ pos' = count.pos
    /\ local' = [i |-> 0, constants_count |-> U16Max]
    /\ pc' = "constants_loop"
    /\ UNCHANGED <<buf, class_file, result>>
    /\ PoolUnchanged

\* one turn of the loop of read_constants: the tag, the constant it selects,
\* add, and the loop test
ReadConstant ==
    /\ pc = "constants_loop"
    /\ LET tag == Buffered(read_u8(buf, pos), pos)
           constant == read_constant(tag.val, buf, tag.pos)
           r == IF ~tag.ok THEN tag ELSE constant
           wide == IF tag.ok /\ tag.val \in {5, 6} THEN 1 ELSE 0
           i == local.i + wide + (IF r.ok THEN 1 ELSE 0)
       IN  /\ pos' = r.pos
           /\ local' = [local EXCEPT !.i = i]
           /\ IF r.ok
              THEN /\ entries' = add(entries, r.val)
                   /\ added' = Append(added, r.val)
                   /\ pc' = IF i < local.constants_count
                            THEN "constants_loop" ELSE "access_flags"
                   /\ UNCHANGED result
              ELSE Fails(r) /\ UNCHANGED <<entries, added>>
    /\ UNCHANGED <<buf, class_file, ret>>

\* self.read_access_flags()?
ReadAccessFlags ==
    /\ pc = "access_flags"
    /\ LET r == read_access_flags(buf, pos)
       IN  /\ Proceeds(r, "this_class")
           /\ class_file' = IF r.ok THEN [class_file EXCEPT !.flags = r.val] ELSE class_file
    /\ UNCHANGED <<buf, local>>
    /\ PoolUnchanged

\* self.class_file.name = self.read_class_reference()?
ReadThisClass ==
    /\ pc = "this_class"
    /\ LET r == read_class_reference(buf, pos, entries)
       IN  /\ Proceeds(r, "super_class")
           /\ class_file' = IF r.ok THEN [class_file EXCEPT !.name = r.val] ELSE class_file
    /\ UNCHANGED <<buf, local>>
    /\ PoolUnchanged

\* self.class_file.superclass = self.read_class_reference()?
ReadSuperClass ==
    /\ pc = "super_class"
    /\ LET r == read_class_reference(buf, pos, entries)
       IN  /\ Proceeds(r, "interfaces")
           /\ class_file' = IF r.ok THEN [class_file EXCEPT !.superclass = r.val]
                            ELSE class_file
    /\ UNCHANGED <<buf, local>>
    /\ PoolUnchanged

\* self.read_interfaces()?
ReadInterfaces ==
    /\ pc = "interfaces"
    /\ LET r == read_interfaces(buf, pos, entries)
       IN  /\ Proceeds(r, "fields")
           /\ class_file' = IF r.ok THEN [class_file EXCEPT !.interfaces = r.val]
                            ELSE class_file
    /\ UNCHANGED <<buf, local>>
    /\ PoolUnchanged

\* self.read_fields()?
ReadFields ==
    /\ pc = "fields"
    /\ LET r == read_fields(buf, pos, entries)
       IN  /\ Proceeds(r, "methods")
           /\ class_file' = IF r.ok THEN [class_file EXCEPT !.fields = r.val] ELSE class_file
    /\ UNCHANGED <<buf, local>>
    /\ PoolUnchanged

\* self.read_methods()?; Ok(self.class_file)
ReadMethods ==
    /\ pc = "methods"
    /\ LET r == read_methods(buf, pos, entries)
       IN  /\ pos' = r.pos
           /\ class_file' = IF r.ok THEN [class_file EXCEPT !.methods = r.val] ELSE class_file
           /\ IF r.ok
              THEN /\ pc' = "done"
                   /\ result' = [status |-> "ok", class_file |-> class_file',
                                 constants |-> entries]
              ELSE Fails(r)
    /\ UNCHANGED <<buf, local>>
    /\ PoolUnchanged

NextParse ==
    \/ CheckMagicNumber
    \/ ReadVersion
    \/ ReadConstantsCount
    \/ ReadConstantsCountPanics
    \/ ReadConstantsCountWraps
    \/ ReadConstant
    \/ ReadAccessFlags
    \/ ReadThisClass
    \/ ReadSuperClass
    \/ ReadInterfaces
    \/ ReadFields
    \/ ReadMethods

(***************************************************************************)
(* The inputs of read_buffer.  A class file is laid out section by         *)
(* section; the inputs vary one section at a time around a well-formed     *)
(* file, and add every strict prefix of two well-formed files.             *)
(***************************************************************************)
U16(n) == <<n \div 256, n % 256>>
U32(n) == <<0, 0>> \o U16(n)

RECURSIVE Flatten(_)
\* the concatenation of a sequence of byte strings
Flatten(ss) == IF ss = <<>> THEN <<>> ELSE Head(ss) \o Flatten(Tail(ss))

NameA == <<65>>
NameI == <<73>>
NameConstantValue == <<67, 111, 110, 115, 116, 97, 110, 116, 86, 97, 108, 117, 101>>
NameCode == <<67, 111, 100, 101>>

Utf8Bytes(text) == <<1>> \o U16(Len(text)) \o text
F32Bytes == <<64, 6, 102, 102>>
F64Bytes == <<64, 12, 122, 225, 71, 174, 20, 123>>

\* the pool of the well-formed file:
\*   1 Utf8 "A"              2 ClassReference(1)    3 Utf8 "ConstantValue"
\*   4 Integer(42)           5 Long(7) (6 its tombstone)
\*   7 Utf8 "I"              8 StringReference(1)   9 Float(2.1)
\*  10 Double(3.56) (11 its tombstone)             12 ClassReference(12)
\*  13 Utf8 "Code"
BasePool ==
    U16(14) \o Flatten(<<
        Utf8Bytes(NameA), <<7>> \o U16(1), Utf8Bytes(NameConstantValue),
        <<3, 0, 0, 0, 42>>, <<5, 0, 0, 0, 0, 0, 0, 0, 7>>,
        Utf8Bytes(NameI), <<8>> \o U16(1), <<4>> \o F32Bytes,
        <<6>> \o F64Bytes, <<7>> \o U16(12), Utf8Bytes(NameCode) >>)

\* what follows the tag of a one-entry pool
TagPayload(tag) ==
    CASE tag = 1 -> U16(1) \o NameA
      [] tag = 3 -> <<255, 255, 255, 249>>
      [] tag = 4 -> F32Bytes
      [] tag = 5 -> <<0, 0, 0, 0, 0, 0, 0, 7>>
      [] tag = 6 -> F64Bytes
      [] OTHER -> U16(1) \o U16(1)

Tags == 0..21 \cup {U8Max}

\* pools of a single entry, one for each tag
TagPool(tag) == U16(2) \o <<tag>> \o TagPayload(tag)

OtherPools ==
    { U16(1),                                              \* no entry
      U16(0),                                              \* a count of 0
      U16(3) \o Utf8Bytes(NameA) \o <<5>> \o TagPayload(5), \* a Long read last
      U16(2) \o Utf8Bytes(<<255>>),                        \* no text
      U16(3) \o Utf8Bytes(NameA) }                         \* one entry short

Magic == <<202, 254, 186, 190>>
OtherMagics == { <<0, 1, 2, 3>>, <<202, 254, 186, 191>>, <<202, 254, 0, 0>>,
                 <<190, 186, 254, 202>> }

Version(minor, major) == U16(minor) \o U16(major)
BaseVersion == Version(0, 50)
OtherVersions == { Version(0, 44), Version(3, 45), Version(0, 65), Version(0, 66) }

\* PUBLIC | SUPER
BaseFlags == U16(33)
OtherFlags == { U16(2), U16(U16Max), U16(0) }

BaseThis == U16(2)
ClassIndices == { U16(0), U16(6), U16(12), U16(14), U16(4) }

BaseInterfaces == U16(0)
OtherInterfaces ==
    { U16(1) \o U16(2), U16(2) \o U16(2) \o U16(8), U16(2) \o U16(8) \o U16(2),
      U16(2) \o U16(2) \o U16(0), U16(2) \o U16(6) \o U16(14), U16(3) \o U16(2) }

\* one attribute: its name index, its length and its bytes
Attribute(name, info) == U16(name) \o U32(Len(info)) \o info

\* a field or a method: flags, name index, descriptor index, attributes
Member(flags, name, descriptor, attributes) ==
    U16(flags) \o U16(name) \o U16(descriptor) \o U16(Len(attributes))
        \o Flatten(attributes)

\* a field "A" of descriptor "I", PUBLIC | STATIC | FINAL, with a
\* ConstantValue attribute whose payload is info
ConstantField(info) == Member(25, 1, 7, << Attribute(3, info) >>)

BaseFields == U16(0)
OtherFields ==
    { U16(1) \o ConstantField(U16(k)) : k \in {1, 2, 4, 5, 6, 8, 9, 10, 14} }
    \cup
    { U16(1) \o ConstantField(<<0, 0, 4>>),
      U16(1) \o ConstantField(<<4>>),
      U16(1) \o Member(2, 1, 7, <<>>),
      U16(1) \o Member(32, 1, 7, <<>>),
      U16(1) \o Member(2, 6, 7, <<>>),
      U16(1) \o Member(2, 1, 0, <<>>),
      U16(2) \o Member(2, 1, 7, <<>>) \o ConstantField(U16(4)),
      U16(2) \o ConstantField(U16(4)) \o Member(2, 7, 1, <<>>),
      U16(1) \o Member(25, 1, 7, << Attribute(13, <<1, 2, 3>>), Attribute(3, U16(5)),
                                    Attribute(3, U16(2)) >>),
      U16(1) \o Member(25, 1, 7, << Attribute(3, U16(4)) >>) \o <<9>>,
      U16(1) \o U16(25) \o U16(1) \o U16(7) \o U16(1) \o U16(3) \o <<0, 1, 0, 2>> \o U16(4),
      U16(2) \o ConstantField(U16(4)) }

BaseMethods == U16(0)
OtherMethods ==
    { U16(1) \o Member(1, 1, 7, <<>>),
      U16(2) \o Member(1, 1, 7, << Attribute(13, <<1, 2, 3>>) >>)
             \o Member(9, 7, 1, << Attribute(3, <<>>), Attribute(13, <<4>>) >>),
      U16(1) \o Member(512, 1, 7, <<>>),
      U16(1) \o Member(1, 11, 7, <<>>),
      U16(1) \o Member(1, 1, 7, << Attribute(6, <<>>) >>),
      U16(2) \o Member(1, 1, 7, <<>>) }

\* a class file from its sections
ClassFileBytes(magic, version, pool, flags, this, super, interfaces, fields, methods) ==
    magic \o version \o pool \o flags \o this \o super \o interfaces \o fields \o methods

BaseFile ==
    ClassFileBytes(Magic, BaseVersion, BasePool, BaseFlags, BaseThis, U16(0),
                   BaseInterfaces, BaseFields, BaseMethods)

\* a well-formed file with two interfaces, two fields and two methods
FullFile ==
    ClassFileBytes(Magic, BaseVersion, BasePool, BaseFlags, BaseThis, U16(2),
                   U16(2) \o U16(2) \o U16(8),
                   U16(2) \o Member(2, 1, 7, <<>>) \o ConstantField(U16(4)),
                   U16(2) \o Member(1, 1, 7, << Attribute(13, <<1, 2, 3>>) >>)
                          \o Member(9, 7, 1, << Attribute(3, <<>>), Attribute(13, <<4>>) >>))

\* what follows the pool when nothing after it refers to it
PlainTail == BaseFlags \o U16(0) \o U16(0) \o U16(0) \o U16(0) \o U16(0)

Prefixes(b) == { SubSeq(b, 1, n) : n \in 0..(Len(b) - 1) }

Inputs ==
    {BaseFile, FullFile}
    \cup { m \o rest : m \in OtherMagics, rest \in {<<>>, <<0>>, Tail(Tail(Tail(Tail(BaseFile))))} }
    \cup { ClassFileBytes(Magic, v, BasePool, BaseFlags, BaseThis, U16(0), BaseInterfaces,
                          BaseFields, BaseMethods) : v \in OtherVersions }
    \cup { Magic \o BaseVersion \o TagPool(t) \o PlainTail : t \in Tags }
    \cup { Magic \o BaseVersion \o pl \o PlainTail : pl \in OtherPools }
    \cup { ClassFileBytes(Magic, BaseVersion, BasePool, x, BaseThis, U16(0), BaseInterfaces,
                          BaseFields, BaseMethods) : x \in OtherFlags }
    \cup { ClassFileBytes(Magic, BaseVersion, BasePool, BaseFlags, x, U16(0), BaseInterfaces,
                          BaseFields, BaseMethods) : x \in ClassIndices }
    \cup { ClassFileBytes(Magic, BaseVersion, BasePool, BaseFlags, BaseThis, x, BaseInterfaces,
                          BaseFields, BaseMethods) : x \in ClassIndices \cup {U16(2)} }
    \cup { ClassFileBytes(Magic, BaseVersion, BasePool, BaseFlags, BaseThis, U16(0), x,
                          BaseFields, BaseMethods) : x \in OtherInterfaces }
    \cup { ClassFileBytes(Magic, BaseVersion, BasePool, BaseFlags, BaseThis, U16(0),
                          BaseInterfaces, x, BaseMethods) : x \in OtherFields }
    \cup { ClassFileBytes(Magic, BaseVersion, BasePool, BaseFlags, BaseThis, U16(0),
                          BaseInterfaces, BaseFields, x) : x \in OtherMethods }
    \cup Prefixes(FullFile)
    \cup Prefixes(Magic \o BaseVersion \o TagPool(5) \o PlainTail)

\* ClassFileReader::new(buf)
InitParse ==
    /\ buf \in Inputs
    /\ pos = 0
    /\ pc = "magic"
    /\ class_file = NoClassFile
    /\ local = [i |-> 0, constants_count |-> 0]
    /\ result = [status |-> "running"]
    /\ entries = <<>>
    /\ added = <<>>
    /\ ret = [op |-> "new", arg |-> 0, res |-> Ok("unit")]

SpecParse == InitParse /\ [][NextParse]_vars

(***************************************************************************)
(* Properties of ClassFileReader::read.                                    *)
(***************************************************************************)
\* the ways read stops: an Err returned, a panic, a stack overflow, Ok
Stopped == {"failed", "panicked", "crashed", "done"}

\* the input has 4 bytes or more and they are not CA FE BA BE
BadMagic == Len(buf) >= 4 /\ SubSeq(buf, 1, 4) # <<202, 254, 186, 190>>

\* C8: an input of at least 4 bytes whose first 4 bytes are not 0xCAFEBABE
\* fails, once its first step has run, with InvalidClassData("invalid magic
\* number") and with the position still right after those 4 bytes; and an
\* input that was parsed successfully starts with the 4 bytes of 0xCAFEBABE.
C8_MagicCheck ==
    /\ (BadMagic /\ pc # "magic") =>
            /\ pc = "failed"
            /\ result = [status |-> "err",
                         error |-> InvalidClassData("invalid magic number", NoSource)]
            /\ pos = 4
            /\ entries = <<>>
    /\ result.status = "ok" =>
            Len(buf) >= 4 /\ SubSeq(buf, 1, 4) = <<202, 254, 186, 190>>

\* C8 happens: an input that shares its first two bytes with the magic number
\* and has bytes after the fourth was rejected at byte 4
C8_Witness ==
    /\ BadMagic
    /\ SubSeq(buf, 1, 2) = <<202, 254>>
    /\ Len(buf) > 4
    /\ pc = "failed"
    /\ pos = 4

\* the steps of read in the order of its statements; the constant pool step
\* is its count and its loop
Steps == <<"magic", "version", "constants", "constants_loop", "access_flags", "this_class",
           "super_class", "interfaces", "fields", "methods", "done">>

StepNo(s) == CHOOSE k \in 1..Len(Steps) : Steps[k] = s

\* what the step at pc returns on the bytes at pos
StepOutcome ==
    CASE pc = "magic" -> check_magic_number(buf, pos)
      [] pc = "version" -> read_version(buf, pos)
      [] pc = "constants" -> Buffered(read_u16(buf, pos), pos)
      [] pc = "constants_loop" ->
            Try(Buffered(read_u8(buf, pos), pos), LAMBDA tag, q : read_constant(tag, buf, q))
      [] pc = "access_flags" -> read_access_flags(buf, pos)
      [] pc \in {"this_class", "super_class"} -> read_class_reference(buf, pos, entries)
      [] pc = "interfaces" -> read_interfaces(buf, pos, entries)
      [] pc = "fields" -> read_fields(buf, pos, entries)
      [] pc = "methods" -> read_methods(buf, pos, entries)

\* the steps follow one another in the order of Steps
C9_InOrder ==
    pc' # pc =>
        \/ pc' \in Stopped \ {"done"}
        \/ StepNo(pc') = StepNo(pc) + 1
        \/ pc = "constants" /\ pc' = "access_flags"

\* read goes on only when the step at pc returned Ok
C9_AfterSuccess == pc' \notin Stopped \ {"done"} => StepOutcome.ok

\* a step that returned Err ends read with that error and nothing else
C9_FirstError ==
    (~StepOutcome.ok /\ StepOutcome.error # StackOverflow) =>
        /\ pc' = "failed"
        /\ result' = [status |-> "err", error |-> StepOutcome.error]
        /\ pos' = StepOutcome.pos

\* what the caller holds: nothing while read runs, the error alone after a
\* failure, the ClassFile only after the last step
C9_Returned ==
    /\ pc \notin Stopped => result = [status |-> "running"]
    /\ pc = "failed" <=> result.status = "err"
    /\ pc = "failed" => DOMAIN result = {"status", "error"}
    /\ pc = "done" <=> result.status = "ok"
    /\ "class_file" \in DOMAIN result => pc = "done" /\ result.class_file = class_file

\* C9: read runs its steps in the order magic, version, constant pool, access
\* flags, this-class, super-class, interfaces, fields, methods; it goes from
\* one step to the next only when the step returned Ok; when a step returns
\* Err nothing runs after it and the position no longer moves, and the caller
\* gets that error alone, a ClassFile being returned only after the last step.
C9_Sequential ==
    /\ []C9_Returned
    /\ [][C9_InOrder /\ C9_AfterSuccess /\ C9_FirstError]_vars
    /\ [][pc \notin Stopped]_vars

\* C9 happens: the magic number, the version, the pool and this-class were
\* read, and a later step failed
C9_Witness ==
    /\ pc = "failed"
    /\ class_file.version.major = 50
    /\ Len(entries) > 0
    /\ class_file.name = "A"
    /\ pos > 10

\* the tags the constant pool step is said to accept, and their variants
ClaimedVariant(tag) ==
    CASE tag = 1 -> "Utf8" [] tag = 3 -> "Integer" [] tag = 4 -> "Float"
      [] tag = 5 -> "Long" [] tag = 6 -> "Double"
      [] tag = 7 -> "ClassReference" [] tag = 8 -> "StringReference"
      [] tag = 9 -> "FieldReference" [] tag = 10 -> "MethodReference"
      [] tag = 11 -> "InterfaceMethodReference" [] tag = 12 -> "NameAndTypeDescriptor"
      [] tag = 15 -> "MethodHandle" [] tag = 16 -> "MethodType"
      [] tag = 17 -> "DynamicInfo" [] tag = 18 -> "InvokeDynamicInfo"
      [] tag = 19 -> "ModuleInfo" [] tag = 20 -> "PackageInfo"

ClaimedTags == {1} \cup 3..12 \cup 15..20

UnknownConstantType(tag) ==
    [status |-> "err",
     error |-> InvalidClassData("Unknown constant type: 0x" \o UpperHex(tag), NoSource)]

\* one turn of the loop of the constant pool step, on the tag at pos
C10_Turn ==
    (pc = "constants_loop" /\ pos < Len(buf)) =>
        LET tag == buf[pos + 1]
        IN  IF tag \in ClaimedTags
            THEN /\ result' # UnknownConstantType(tag)
                 /\ pc' # "failed" =>
                        /\ Len(added') = Len(added) + 1
                        /\ added'[Len(added')].tag = ClaimedVariant(tag)
            ELSE pc' = "failed" /\ result' = UnknownConstantType(tag)

\* C10: in the constant pool step each of the tags 1, 3 to 12 and 15 to 20 is
\* not rejected as unknown and, when its constant is read, appends the entry
\* of its variant; every other tag ends read with InvalidClassData naming
\* the tag.
C10_TagDispatch == [][C10_Turn]_vars

\* the u16 that ends at pos: the index the step before pc has just read
IndexRead == buf[pos - 1] * 256 + buf[pos]

\* Option::None among the values a String field can take: read_class_reference
\* returns a String, and no String is None
IsNone(v) == v \notin STRING

\* the superclass after the super-class step read its index
C11_Value ==
    pc = "interfaces" =>
        IF IndexRead = 0
        THEN IsNone(class_file.superclass)
        ELSE /\ text_of(entries, IndexRead).ok
             /\ class_file.superclass = text_of(entries, IndexRead).val

\* the super-class step on the index at pos
C11_Step ==
    (pc = "super_class" /\ pos + 2 <= Len(buf)) =>
        LET index == buf[pos + 1] * 256 + buf[pos + 2]
        IN  IF index = 0 THEN pc' = "interfaces"
            ELSE pc' = "interfaces" <=> text_of(entries, index).ok

\* C11: a superclass index of 0 is accepted whatever the pool holds and the
\* superclass is then absent (None); a superclass index other than 0 gives
\* the text_of of that index, and read fails when that text_of fails.
C11_SuperClass == []C11_Value /\ [][C11_Step]_vars

(***************************************************************************)
(* extract_constant_value on its own: a pool, and the raw attributes of a  *)
(* field.                                                                  *)
(***************************************************************************)
\* the pool of the well-formed file, and three StringReferences after it:
\* to a tombstone, to an Integer and to a slot past the end
ConstantPoolEntries ==
    << Utf8("A"), ClassReference(1), Utf8("ConstantValue"), Integer(42), Long(7),
       Utf8("I"), StringReference(1), Float(210), Double(356), ClassReference(12),
       Utf8("Code"), StringReference(6), StringReference(4), StringReference(99) >>

\* the payloads of the attributes: no byte, one byte, three bytes, and the
\* two bytes of every index up to one past the pool
ConstantInfos ==
    { <<>>, <<4>>, <<0, 0, 4>> }
    \cup { U16(k) : k \in 0..(Len(AddAll(<<>>, ConstantPoolEntries)) + 1) }
    \cup { U16(U16Max) }

\* Attribute { name, info }
RawAttribute(name, info) == [name |-> name, info |-> info]

ConstantAttributes ==
    { RawAttribute(n, i) : n \in {"ConstantValue", "Code"}, i \in ConstantInfos }

\* the attribute lists of a field: none, one, or two of which the first is
\* one of a few
ConstantAttributeLists ==
    { <<>> }
    \cup { <<a>> : a \in ConstantAttributes }
    \cup { <<a, b>> : a \in { RawAttribute("Code", <<4>>), RawAttribute("ConstantValue", U16(4)),
                              RawAttribute("ConstantValue", <<4>>) },
                      b \in ConstantAttributes }

InitConstant ==
    /\ entries = AddAll(<<>>, ConstantPoolEntries)
    /\ added = ConstantPoolEntries
    /\ ret = [op |-> "new", arg |-> 0, res |-> Ok("unit")]
    /\ ReaderIdle

\* self.extract_constant_value(raw_attributes)
ExtractConstantValueCall(raw_attributes) ==
    /\ ret' = [op |-> "extract_constant_value", arg |-> raw_attributes,
               res |-> extract_constant_value(raw_attributes, entries, pos)]
    /\ UNCHANGED <<entries, added>>
    /\ ReaderUnchanged

ConstantExtract == \E as \in ConstantAttributeLists : ExtractConstantValueCall(as)

NextConstant == ConstantExtract

SpecConstant == InitConstant /\ [][NextConstant]_vars

\* the value a ConstantValue attribute gives for the entry it refers to
ValueOfEntry(e) ==
    CASE e.tag = "Integer" -> [variant |-> "Int", v |-> e.n]
      [] e.tag = "Float" -> [variant |-> "Float", v |-> e.h]
      [] e.tag = "Long" -> [variant |-> "Long", v |-> e.n]
      [] e.tag = "Double" -> [variant |-> "Double", v |-> e.h]
      [] e.tag = "StringReference" -> [variant |-> "String", v |-> text_of(entries, e.i).val]

\* the first attribute named ConstantValue of a list that has one
FirstConstantValue(as) ==
    as[CHOOSE k \in 1..Len(as) :
            /\ as[k].name = "ConstantValue"
            /\ \A m \in 1..(k - 1) : as[m].name # "ConstantValue"]

\* C12: extract_constant_value gives None for a field without a ConstantValue
\* attribute; with one, a payload that is not 2 bytes long fails with
\* InvalidClassData; a payload of 2 bytes is a big-endian pool index, and the
\* entry at that index decides: Integer gives Int, Float gives Float, Long
\* gives Long, Double gives Double, each with the entry's number,
\* StringReference(v) gives String(text_of(v)), and an entry of any other
\* variant fails with InvalidClassData.
C12_ConstantValue ==
    ret.op = "extract_constant_value" =>
        IF \A k \in 1..Len(ret.arg) : ret.arg[k].name # "ConstantValue"
        THEN ret.res.ok /\ ret.res.val = NoSource
        ELSE LET info == FirstConstantValue(ret.arg).info
                 index == info[1] * 256 + info[2]
                 entry == entries[index].entry
             IN  IF Len(info) # 2
                 THEN ~ret.res.ok /\ ret.res.error.err = "InvalidClassData"
                 ELSE IsLive(entries, index) =>
                        CASE entry.tag \in {"Integer", "Float", "Long", "Double"} ->
                                /\ ret.res.ok
                                /\ ret.res.val = [some |-> TRUE, error |-> ValueOfEntry(entry)]
                          [] entry.tag = "StringReference" ->
                                IF text_of(entries, entry.i).ok
                                THEN /\ ret.res.ok
                                     /\ ret.res.val =
                                            [some |-> TRUE, error |-> ValueOfEntry(entry)]
                                ELSE ~ret.res.ok
                          [] OTHER ->
                                ~ret.res.ok /\ ret.res.error.err = "InvalidClassData"

\* C12 happens: a Code attribute came first, and the ConstantValue attribute
\* after it referred to the Long of the pool
C12_Witness ==
    /\ ret.op = "extract_constant_value"
    /\ Len(ret.arg) = 2
    /\ ret.arg[1].name = "Code"
    /\ ret.arg[2] = RawAttribute("ConstantValue", <<0, 5>>)
    /\ ret.res.ok
    /\ ret.res.val.error = [variant |-> "Long", v |-> 7]

\* the inputs that stop short: the strict prefixes of two well-formed files
TruncatedInputs ==
    Prefixes(FullFile) \cup Prefixes(Magic \o BaseVersion \o TagPool(5) \o PlainTail)

\* an error of the kind UnexpectedEndOfData
IsUnexpectedEndOfData(e) ==
    \/ e.err = "UnexpectedEndOfData"
    \/ e.err = "BufferError" /\ e.variant = "UnexpectedEndOfData"

\* C13: on an input that ends before a read it needs is complete (a strict
\* prefix of a well-formed file, such as the magic number and fewer than 4
\* bytes after it) read_buffer returns an error of the kind
\* UnexpectedEndOfData; it does not panic and returns no ClassFile.
C13_Truncated ==
    buf \in TruncatedInputs =>
        /\ pc \notin {"done", "panicked", "crashed"}
        /\ pc = "failed" => IsUnexpectedEndOfData(result.error)

\* the three conditions on the input: its magic number, its version, and
\* no read that asked for bytes past its end
MagicOk == Len(buf) >= 4 /\ SubSeq(buf, 1, 4) = <<202, 254, 186, 190>>
VersionOk == Len(buf) >= 8 /\ (buf[7] * 256 + buf[8]) \in SupportedMajors
EndOfData(e) == e = InvalidClassData("unexpected end of class file", NoSource)
ReadsInBounds == ~(pc = "failed" /\ EndOfData(result.error))

C14_OnlyIf == result.status = "ok" => (MagicOk /\ VersionOk /\ pos <= Len(buf))

\* an input that meets the three conditions is rejected by a step after the
\* version, because of what the bytes say
C14_Rejection ==
    (pc' = "failed" /\ MagicOk /\ VersionOk /\ ~EndOfData(result'.error)) =>
        /\ pc \notin {"magic", "version", "constants"}
        /\ result'.error.err \in {"InvalidClassData", "InvalidClassDataIndex"}
        /\ pc = "constants_loop" =>
                \/ /\ buf[pos + 1] \notin {1} \cup 3..12
                   /\ result' = UnknownConstantType(buf[pos + 1])
                \/ /\ buf[pos + 1] = 1
                   /\ result'.error = InvalidClassData("invalid cesu8 string", NoSource)
        /\ pc = "access_flags" =>
                result'.error =
                    InvalidClassData("invalid class flags: "
                                     \o IntToString(buf[pos + 1] * 256 + buf[pos + 2]), NoSource)
        /\ pc \in {"this_class", "super_class", "interfaces"} =>
                result'.error.err = "InvalidClassData" /\ result'.error.source.some

C15_Terminates == pc # "crashed"

\* read has failed because a pool index was out of range or a tombstone: the
\* error it returned has such an index error for its source
IndexFailure ==
    /\ pc = "failed"
    /\ result.error.err \in {"InvalidClassData", "InvalidClassDataIndex"}
    /\ result.error.source.some
    /\ result.error.source.error.err \in {"PoolIndex", "InvalidConstantPoolIndexError"}

\* C16: when read fails because a pool index is out of range or lands on a
\* tombstone, the error is InvalidClassDataIndex and carries that index, and
\* is no InvalidClassData.
C16_IndexErrorKind ==
    IndexFailure =>
        /\ result.error.err = "InvalidClassDataIndex"
        /\ result.error.source.error.index \in 0..U16Max

\* the layout of the bytes: the u16 after position p, the length of the
\* attribute that starts after p, and where records end and start
U16At(b, p) == b[p + 1] * 256 + b[p + 2]
AttributeLength(b, p) == U16At(b, p + 2) * 65536 + U16At(b, p + 4)

RECURSIVE AttributeStart(_, _, _)
\* where the k-th of the attributes that start after p starts
AttributeStart(b, p, k) ==
    IF k = 1 THEN p ELSE AttributeStart(b, p + 6 + AttributeLength(b, p), k - 1)

\* where the member that starts after p ends
MemberEnd(b, p) == AttributeStart(b, p + 8, U16At(b, p + 6) + 1)

RECURSIVE MemberStart(_, _, _)
\* where the k-th of the members that start after p starts
MemberStart(b, p, k) == IF k = 1 THEN p ELSE MemberStart(b, MemberEnd(b, p), k - 1)

\* the text of the index at p; index 0 of a class reference reads as ""
TextAt(b, p) == text_of(entries, U16At(b, p)).val
ClassTextAt(b, p) == IF U16At(b, p) = 0 THEN "" ELSE TextAt(b, p)

\* the interfaces step gave as many names as its count, in the order read
C17_Interfaces ==
    (pc = "interfaces" /\ pc' = "fields") =>
        /\ Len(class_file'.interfaces) = U16At(buf, pos)
        /\ \A k \in 1..U16At(buf, pos) :
                class_file'.interfaces[k] = ClassTextAt(buf, pos + 2 * k)

\* the fields step gave as many fields as its count, in the order read
C17_Fields ==
    (pc = "fields" /\ pc' = "methods") =>
        /\ Len(class_file'.fields) = U16At(buf, pos)
        /\ \A k \in 1..U16At(buf, pos) :
                LET start == MemberStart(buf, pos + 2, k)
                    field == class_file'.fields[k]
                IN  /\ field.flags = U16At(buf, start)
                    /\ field.name = TextAt(buf, start + 2)
                    /\ field.type_descriptor = TextAt(buf, start + 4)

\* the methods step gave as many methods as its count, in the order read,
\* each with its attributes in the order read and the bytes of each
C17_Methods ==
    (pc = "methods" /\ pc' = "done") =>
        /\ Len(class_file'.methods) = U16At(buf, pos)
        /\ \A k \in 1..U16At(buf, pos) :
                LET start == MemberStart(buf, pos + 2, k)
                    method == class_file'.methods[k]
                IN  /\ method.flags = U16At(buf, start)
                    /\ method.name = TextAt(buf, start + 2)
                    /\ method.type_descriptor = TextAt(buf, start + 4)
                    /\ Len(method.attributes) = U16At(buf, start + 6)
                    /\ \A j \in 1..U16At(buf, start + 6) :
                            LET at == AttributeStart(buf, start + 8, j)
                                attribute == method.attributes[j]
                            IN  /\ attribute.name = TextAt(buf, at)
                                /\ Len(attribute.info) = AttributeLength(buf, at)
                                /\ attribute.info =
                                     SubSeq(buf, at + 7, at + 6 + AttributeLength(buf, at))

\* C17: on a successful parse the interfaces, the fields and the methods are
\* as many as their u16 counts say, the k-th of each list being the k-th
\* record of the bytes; each method has its attributes as pairs of a name
\* and raw bytes, in the order read, the bytes as many as the u32 length
\* says.
C17_ListsInOrder == [][C17_Interfaces /\ C17_Fields /\ C17_Methods]_vars

\* C17 happens: a file with two interfaces, two fields and two methods, the
\* second method with two attributes, was parsed
C17_Witness ==
    /\ pc = "done"
    /\ Len(result.class_file.interfaces) = 2
    /\ Len(result.class_file.fields) = 2
    /\ result.class_file.fields[1].flags = 2
    /\ result.class_file.fields[2].flags = 25
    /\ Len(result.class_file.methods) = 2
    /\ result.class_file.methods[1].name = "A"
    /\ result.class_file.methods[2].name = "I"
    /\ result.class_file.methods[2].attributes =
            << RawAttribute("ConstantValue", <<>>), RawAttribute("Code", <<4>>) >>

\* the count the pool step read: the u16 after the version
DeclaredCount == U16At(buf, 8)

\* C18: when the pool step has succeeded on a count c >= 1 the pool holds
\* exactly c - 1 slots, tombstones included, also when the last entry read is
\* a Long or a Double; so get(i) fails for every i >= c.
C18_SlotCount ==
    (pc = "access_flags" /\ DeclaredCount >= 1) =>
        /\ Len(entries) = DeclaredCount - 1
        /\ \A i \in DeclaredCount..(DeclaredCount + 2) : ~get(entries, i).ok


(***************************************************************************)
(* Display rendering of the pool (fmt_entry, Display for ConstantPool,     *)
(* Display for ClassFile).                                                 *)
(***************************************************************************)
\* format!("{name}: {i} => ({target})")
fmt_unary(name, i, target) ==
    IF ~target.ok THEN target
    ELSE Ok(name \o ": " \o NatToString(i) \o " => (" \o target.val \o ")")

\* format!("{name}: {i}, {j} => ({a}), ({b})"): a is evaluated before b
fmt_pair(name, i, j, a, b) ==
    IF ~a.ok THEN a ELSE IF ~b.ok THEN b
    ELSE Ok(name \o ": " \o NatToString(i) \o ", " \o NatToString(j)
            \o " => (" \o a.val \o "), (" \o b.val \o ")")

\* ConstantPool::fmt_entry.  As in text_of, `active` holds the indices whose
\* call is on the stack.
RECURSIVE fmt_entry_rec(_, _, _)
fmt_entry_rec(es, idx, active) ==
    IF idx \in active THEN StackOverflow
    ELSE
    LET got == get(es, idx)
        entry == got.val
        sub(n) == fmt_entry_rec(es, n, active \cup {idx})
    IN  IF ~got.ok THEN PoolIndex(got)
        ELSE CASE entry.tag = "Utf8" -> Ok("String: \"" \o entry.s \o "\"")
               [] entry.tag = "Integer" -> Ok("Integer: " \o IntToString(entry.n))
               [] entry.tag = "Float" -> Ok("Float: " \o FloatToString(entry.h))
               [] entry.tag = "Long" -> Ok("Long: " \o IntToString(entry.n))
               [] entry.tag = "Double" -> Ok("Double: " \o FloatToString(entry.h))
               [] entry.tag \in UnaryTags -> fmt_unary(entry.tag, entry.i, sub(entry.i))
               [] entry.tag \in DotTags \cup ColonTags ->
                    fmt_pair(entry.tag, entry.i, entry.j, sub(entry.i), sub(entry.j))
               [] entry.tag = "MethodHandle" ->
                    LET k == method_handle_kind(entry.k)
                    IN  fmt_pair(entry.tag, entry.k, entry.j,
                                 IF k.ok THEN k ELSE MethodHandleKind(k), sub(entry.j))

fmt_entry(es, idx) == fmt_entry_rec(es, idx, {})

\* fmt::Error
FmtError == [ok |-> FALSE, err |-> "fmt::Error"]

\* the loop of Display for ConstantPool from slot index on, `written` being
\* the lines written so far: every physical slot is formatted, and the first
\* slot fmt_entry fails on ends the rendering with fmt::Error
RECURSIVE fmt_slots(_, _, _)
fmt_slots(es, index, written) ==
    IF index > Len(es) THEN Ok(written)
    ELSE LET entry_text == fmt_entry(es, index)
         IN  IF entry_text = StackOverflow THEN StackOverflow
             ELSE IF ~entry_text.ok THEN FmtError
             ELSE fmt_slots(es, index + 1,
                     Append(written, "    " \o NatToString(index) \o ", " \o entry_text.val))

\* <ConstantPool as fmt::Display>::fmt: the lines written, or the error
fmt_constant_pool(es) ==
    fmt_slots(es, 1, <<"Constant pool: (size: " \o NatToString(Len(es)) \o ")">>)

\* <ClassFile as fmt::Display>::fmt of a default ClassFile holding the pool:
\* the lines of the pool between the class line and the lines that follow;
\* the texts of the version and of the flags are not part of the model
fmt_class_file(es) ==
    LET constants == fmt_constant_pool(es)
    IN  IF ~constants.ok THEN constants
        ELSE Ok(<<"Class  version: ">> \o constants.val
                \o <<"flags: , deprecated: false", "interfaces: []", "fields:", "methods:">>)

\* format!("{}", cp)
DisplayCall ==
    /\ ret' = [op |-> "Display", arg |-> "ConstantPool", res |-> fmt_constant_pool(entries)]
    /\ UNCHANGED <<entries, added>>
    /\ ReaderUnchanged

\* format!("{}", class_file), the pool being class_file.constants
DisplayClassFileCall ==
    /\ ret' = [op |-> "Display", arg |-> "ClassFile", res |-> fmt_class_file(entries)]
    /\ UNCHANGED <<entries, added>>
    /\ ReaderUnchanged

DisplayEntries ==
    {Utf8("hey"), Integer(1), Float(210), Long(123), Double(356),
     ClassReference(1), StringReference(3), FieldReference(1, 2),
     NameAndTypeDescriptor(1, 1), MethodHandle(1, 1), MethodHandle(10, 1),
     MethodType(2)}

DisplayAdd == \E e \in DisplayEntries : Add(e, MaxSlots)

NextDisplay == DisplayAdd \/ DisplayCall \/ DisplayClassFileCall

SpecDisplay == InitPool /\ [][NextDisplay]_vars

\* the reference indices of an entry
ReferenceIndices(entry) ==
    IF entry.tag \in UnaryTags THEN {entry.i}
    ELSE IF entry.tag \in DotTags \cup ColonTags THEN {entry.i, entry.j}
    ELSE IF entry.tag = "MethodHandle" THEN {entry.j}
    ELSE {}

\* every reference index of every live entry is the index of an earlier live
\* entry, and every method handle kind is one of the ten kinds
ReferencesValid(es) ==
    \A n \in 1..Len(es) :
        es[n].kind = "Entry" =>
            /\ \A r \in ReferenceIndices(es[n].entry) : r < n /\ IsLive(es, r)
            /\ es[n].entry.tag = "MethodHandle" => es[n].entry.k \in 0..9

LiveCount(es) == Cardinality({n \in 1..Len(es) : es[n].kind = "Entry"})

\* C19: rendering a pool whose reference indices are all valid succeeds and
\* gives the size line and one line per live entry, tombstone slots of Long
\* and Double entries included in the pool; rendering a ClassFile that holds
\* such a pool succeeds as well.
C19_Renders ==
    (ret.op = "Display" /\ ReferencesValid(entries)) =>
        /\ ret.res.ok
        /\ ret.arg = "ConstantPool" => Len(ret.res.val) = 1 + LiveCount(entries)


\* the pool step has read the count, and the count is 0
CountZeroRead ==
    MagicOk /\ VersionOk /\ Len(buf) >= 10 /\ pos >= 10 /\ DeclaredCount = 0

\* C20: on a declared pool count of 0 the subtraction count - 1 does not
\* underflow: the parser does not panic, the loop bound is not 65535, and the
\* parser reads no entry unless it fails with an error value.
C20_CountZero ==
    CountZeroRead =>
        /\ pc # "panicked"
        /\ local.constants_count # U16Max
        /\ pc # "failed" => entries = <<>>


\* an error of read that reports the pool index 0 as invalid
InvalidIndexZero(e) ==
    /\ e.err \in {"InvalidClassData", "InvalidClassDataIndex"}
    /\ e.source.some
    /\ e.source.error.err \in {"PoolIndex", "InvalidConstantPoolIndexError"}
    /\ e.source.error.index = 0

\* the this-class step on an index of 0 fails with an invalid-index error
C21_ThisClass ==
    (pc = "this_class" /\ pos + 2 <= Len(buf) /\ U16At(buf, pos) = 0) =>
        /\ pc' = "failed"
        /\ InvalidIndexZero(result'.error)

\* the interfaces step whose first interface index is 0 fails with an
\* invalid-index error, and no interfaces step that read an index of 0 succeeds
C21_Interfaces ==
    /\ (pc = "interfaces" /\ pos + 4 <= Len(buf) /\ U16At(buf, pos) >= 1
            /\ U16At(buf, pos + 2) = 0) =>
            /\ pc' = "failed"
            /\ InvalidIndexZero(result'.error)
    /\ (pc = "interfaces" /\ pc' = "fields") =>
            \A k \in 1..U16At(buf, pos) : U16At(buf, pos + 2 * k) # 0

\* no entry of the pool has the empty string for its text
NoEmptyText == \A i \in 1..Len(entries) : text_of(entries, i).ok => text_of(entries, i).val # ""

\* a parsed class whose pool has no empty text has no empty class name and no
\* empty interface name
C21_Names ==
    (pc = "done" /\ NoEmptyText) =>
        /\ result.class_file.name # ""
        /\ \A k \in 1..Len(result.class_file.interfaces) :
                result.class_file.interfaces[k] # ""

\* C21: index 0 is accepted only as the superclass index: a this-class index
\* of 0 and an interface index of 0 abort the parse with an invalid-index
\* error, and no successful parse gives a class or an interface the empty
\* name of the index-0 shortcut.
C21_IndexZero == []C21_Names /\ [][C21_ThisClass /\ C21_Interfaces]_vars

====
